---------------------------- MODULE Spec2Model ----------------------------
(***************************************************************************)
(* Model of the homeplayer playback core:                                  *)
(*   - rodio-player/src/lib.rs     RodioPlayer (queue, cursor, sink slot,  *)
(*                                 session threads, event channels)        *)
(*   - rodio-player/src/cd_audio.rs  read_cd_toc, CdTrackSource            *)
(*   - src/main.rs                 Homeplayer::play_titles / play_cd       *)
(*                                                                         *)
(* The control (UI) thread runs one engine command at a time as a list of  *)
(* primitive steps (one per lock acquisition / sink call / send), so that  *)
(* session threads interleave with a command exactly where the code lets   *)
(* them.  Each session thread is a small program counter machine.          *)
(*                                                                         *)
(* The rodio Sink is a collaborator; it is modelled by what the engine     *)
(* relies on: a FIFO of appended sources per sink, stop()/clear() end      *)
(* every source queued at that moment (which makes sleep_until_end of the  *)
(* threads that appended them return), append() on a stopped sink resumes  *)
(* it, clear() also pauses the sink and play() un-pauses it.               *)
(***************************************************************************)
EXTENDS Integers, Sequences, FiniteSets, TLC

\* ------------------------------------------------------------------ bounds
MaxThreads == 2
MaxCmds == 2
MaxQueue == 2
MaxTracks == 3
MaxSinks == 2
MaxInitQueue == 2

\* --------------------------------------------------------------- constants
\* usize::MAX, the stop sentinel (lib.rs:323).  The model's integers are
\* 32 bit wide, so the largest representable value stands for it; the cursor
\* is only compared with lengths, incremented below a length and decremented
\* by two.
USIZE_MAX == 2147483647

VARIABLES
    queue,        \* sound_queue: Seq(SoundItem)
    idx,          \* sound_queue_index
    curSink,      \* the sink the engine's slot currently holds
    nsinks,       \* number of sinks created so far
    paused,       \* sink -> paused flag
    volume,       \* sink -> volume level
    mute_volume,  \* mute memory
    sinkQ,        \* sink -> FIFO of threads whose source is queued in it
    stateChan,    \* button_state_sender: Seq([ev, by])
    titleChan,    \* title_changed_sender: Seq([title, by])
    ctl,          \* control thread: command in progress and its steps
    ncmds,        \* commands issued so far
    nthreads,     \* session threads spawned so far
    pc,           \* thread -> program counter
    kind,         \* thread -> "file" | "cd" | "stream"
    tsink,        \* thread -> the Arc<Sink> it cloned at spawn
    cur,          \* thread -> item / track taken from the cursor
    ttracks,      \* thread -> track list handed to play_cd
    tstart,       \* thread -> start_index handed to play_cd
    superseded,   \* thread -> command that stopped-and-cleared it ("" if none)
    stopSeen,     \* thread -> command whose stop() found it blocked ("" if none)
    disc,         \* the UI's CD state: tracks of the loaded disc
    stopCalls,    \* number of stop() calls issued
    openLog       \* File::open / open_track calls made: Seq([what, by])

engineVars == <<queue, idx, curSink, nsinks, paused, volume, mute_volume, sinkQ,
                stateChan, titleChan, ctl, ncmds, nthreads, pc, kind, tsink,
                cur, ttracks, tstart, superseded, stopSeen, disc, stopCalls, openLog>>

VARIABLES
    src_track,        \* the CdTrackInfo handed to open_track
    source,           \* "none" | "open" | "err": result of open_track
    current_lba,      \* CdTrackSource.current_lba
    end_lba,          \* CdTrackSource.end_lba
    buffer,           \* CdTrackSource.buffer (see DecodedBuffer / SilenceBuffer)
    buffer_pos,       \* CdTrackSource.buffer_pos
    total_samples,    \* CdTrackSource.total_samples
    samples_yielded,  \* CdTrackSource.samples_yielded
    reads,            \* CDROMREADAUDIO requests made: Seq([lba, nframes, ok])
    n_some,           \* number of next() calls that returned Some
    n_none,           \* number of next() calls that returned None
    last_ret,         \* what the latest next() call returned
    dev_opens         \* open_cd_device calls made by open_track

trackVars == <<src_track, source, current_lba, end_lba, buffer, buffer_pos,
               total_samples, samples_yielded, reads, n_some, n_none, last_ret,
               dev_opens>>

VARIABLES
    toc_pc,           \* position of read_cd_toc, or its outcome
    first_track,      \* toc_hdr.cdth_trk0
    last_track,       \* toc_hdr.cdth_trk1
    entries,          \* Vec<RawEntry>
    leadout_lba,      \* lead-out address
    cd_tracks         \* CdInfo.tracks of the returned CdInfo

tocVars == <<toc_pc, first_track, last_track, entries, leadout_lba, cd_tracks>>

cdVars == <<trackVars, tocVars>>

VARIABLES
    state_rx,         \* the Receiver of button_state_sender still exists
    title_rx,         \* the Receiver of title_changed_sender still exists
    volLog,           \* set_volume()/mute() calls: Seq([cmd, vol]), vol the volume at the call
    skipSeen          \* thread -> what a skip found when it took effect (see SkipMark)

rxVars == <<state_rx, title_rx>>

VARIABLES
    holder,           \* engine lock -> the process holding it (Free if none)
    lprog,            \* process -> the lock steps it still has to make
    lcmds             \* commands issued in the lock-level view

lockVars == <<holder, lprog, lcmds>>

VARIABLES
    disc_present,     \* CdSourceState.disc_present (its tracks are `disc`)
    ui_toc_rx,        \* Homeplayer.cd_toc_rx holds the receiver of a TOC read
    eject             \* outcomes of the device calls of the last eject_cd

VARIABLES
    cd_source_states, \* Homeplayer.cd_source_states: CD source -> CdSourceState
    cd_toc_rx,        \* Homeplayer.cd_toc_rx: None, or Some((source_idx, receiver))
    toc_chans         \* the TOC reads spawned so far, each with its result channel

cdPageVars == <<cd_source_states, cd_toc_rx, toc_chans>>

uiVars == <<disc_present, ui_toc_rx, eject, cdPageVars>>

VARIABLES
    task              \* tokio tasks running RodioPlayer::play_stream: Seq([ops, setup])

taskVars == <<task>>

VARIABLES
    fn_in,            \* argument of a conversion under test
    fn_out            \* <<result>> once the conversion was applied

fnVars == <<fn_in, fn_out>>

sideVars == <<cdVars, rxVars, volLog, skipSeen, lockVars, uiVars, taskVars, fnVars>>

notCdVars == <<engineVars, rxVars, volLog, skipSeen, lockVars, uiVars, taskVars, fnVars>>

vars == <<engineVars, sideVars>>

Threads == 1..MaxThreads
Sinks == 1..MaxSinks

\* ------------------------------------------------------------ data types
\* SoundItem: the title stands for artist/album/title/cover, path_ok for
\* whether the file at `path` opens and decodes.
Titles == {"a", "b"}

SoundItem == [title : Titles, path_ok : BOOLEAN]

NoItem == [title |-> "", path_ok |-> FALSE]

NoSkip == [cmd |-> "", cursor |-> 0, opens |-> 0]

RECURSIVE SeqsUpTo(_, _)
SeqsUpTo(S, n) ==
    IF n = 0 THEN {<<>>}
    ELSE LET shorter == SeqsUpTo(S, n - 1)
         IN shorter \cup {Append(s, x) : s \in {q \in shorter : Len(q) = n - 1}, x \in S}

\* CdTrackInfo as the engine sees it: number and audio flag (the addresses
\* only matter to the Track Source).
CdTrack(n, audio) == [number |-> n, is_audio |-> audio]

DiscOf(flags) == [i \in 1..Len(flags) |-> CdTrack(i, flags[i])]

Discs == {DiscOf(f) : f \in SeqsUpTo(BOOLEAN, MaxTracks)}

\* Mutant of SelectAudio: the audio filter is forgotten.
SelectAudio_NoFilter(ts) == ts

RECURSIVE SelectAudio(_)
SelectAudio(ts) ==
    IF ts = <<>> THEN <<>>
    ELSE IF Head(ts).is_audio THEN <<Head(ts)>> \o SelectAudio(Tail(ts))
         ELSE SelectAudio(Tail(ts))

Ev(e, t) == [ev |-> e, by |-> t]

\* Volume a freshly connected sink starts with (Sink::connect_new).
DefaultVolume == 1

Live(t) == pc[t] \notin {"unborn", "done", "failed", "panicked"}

NoBuffer == [len |-> 0, ok |-> TRUE, lba |-> 0]

NoRet == [some |-> FALSE, num |-> 0, den |-> 1]

\* No Track Source has been opened.
TrackIdle ==
    /\ source = "none"
    /\ current_lba = 0
    /\ end_lba = 0
    /\ buffer = NoBuffer
    /\ buffer_pos = 0
    /\ total_samples = 0
    /\ samples_yielded = 0
    /\ reads = <<>>
    /\ n_some = 0
    /\ n_none = 0
    /\ last_ret = NoRet
    /\ dev_opens = 0

\* read_cd_toc has read nothing yet.
TocFresh ==
    /\ first_track = 0
    /\ last_track = 0
    /\ entries = <<>>
    /\ leadout_lba = 0
    /\ cd_tracks = <<>>

\* The engine on its own: no Track Source is being read, no TOC is being read.
CdIdle ==
    /\ src_track = [start_lba |-> 0, end_lba |-> 0, is_audio |-> TRUE]
    /\ TrackIdle
    /\ toc_pc = "idle"
    /\ TocFresh

\* The engine's locks: sound_queue, sound_queue_index, sink, _stream,
\* mute_volume.  Processes: 0 is the control thread, 1..MaxThreads the
\* session threads, Worker the tokio worker that runs a play_stream task.
Locks == {"queue", "cursor", "sink", "stream", "mute"}

Free == -1

Worker == MaxThreads + 1

Procs == 0..Worker

\* No lock is held and no process has lock steps to make.
LockIdle ==
    /\ holder = [l \in Locks |-> Free]
    /\ lprog = [p \in Procs |-> <<>>]
    /\ lcmds = 0

\* No conversion is under test.
FnIdle == fn_in = <<>> /\ fn_out = <<>>

\* No eject_cd has run.
NoEject == [open_ok |-> FALSE, unlock_ok |-> FALSE, eject_ok |-> FALSE, ret |-> "none"]

\* Bounds of the CD pages: the CD sources of the configuration, and the TOC
\* reads asked for in one run.
MaxCdSources == 2

MaxTocReqs == 3

CdSources == 0..(MaxCdSources - 1)

\* CdSourceState::new.
CdSourceState_new ==
    [tracks |-> <<>>, loading |-> FALSE, status |-> [text |-> "", audio |-> 0],
     disc_present |-> FALSE]

\* cd_toc_rx = None.
NoTocRx == [some |-> FALSE, source_idx |-> 0, chan |-> 0]

\* Homeplayer as main() builds it: a fresh state per CD source, no receiver.
CdPagesIdle ==
    /\ cd_source_states = [s \in CdSources |-> CdSourceState_new]
    /\ cd_toc_rx = NoTocRx
    /\ toc_chans = <<>>

\* The UI's CD page: the disc is marked present when it has tracks listed;
\* no TOC read is pending.
UiIdle ==
    /\ disc_present = (disc # <<>>)
    /\ ui_toc_rx = FALSE
    /\ CdPagesIdle
    /\ eject = NoEject
    /\ FnIdle

\* main.rs keeps both receivers for the lifetime of the application.
RxConnected == state_rx = TRUE /\ title_rx = TRUE

\* ------------------------------------------------------------------ Init
\* RodioPlayer::new: empty queue, cursor 0, one sink, mute memory 0.
InitRest ==
    /\ idx = 0
    /\ curSink = 1
    /\ nsinks = 1
    /\ paused = [s \in Sinks |-> FALSE]
    /\ volume = [s \in Sinks |-> DefaultVolume]
    /\ mute_volume = 0
    /\ sinkQ = [s \in Sinks |-> <<>>]
    /\ stateChan = <<>>
    /\ titleChan = <<>>
    /\ ctl = [cmd |-> "idle", ops |-> <<>>, items |-> <<>>, tracks |-> <<>>,
              start |-> 0, vol |-> 0, ev |-> ""]
    /\ ncmds = 0
    /\ nthreads = 0
    /\ pc = [t \in Threads |-> "unborn"]
    /\ kind = [t \in Threads |-> "none"]
    /\ tsink = [t \in Threads |-> 0]
    /\ cur = [t \in Threads |-> NoItem]
    /\ ttracks = [t \in Threads |-> <<>>]
    /\ tstart = [t \in Threads |-> 0]
    /\ superseded = [t \in Threads |-> ""]
    /\ stopSeen = [t \in Threads |-> ""]
    /\ stopCalls = 0
    /\ openLog = <<>>
    /\ volLog = <<>>
    /\ skipSeen = [t \in Threads |-> NoSkip]
    /\ task = <<>>
    /\ LockIdle

InitEngine == queue = <<>> /\ InitRest /\ CdIdle /\ RxConnected

\* ------------------------------------------------- commands as step lists
\* Sender::send on a channel whose Receiver is gone returns Err and the
\* message is dropped.
SendState(evs, t) ==
    stateChan' = IF state_rx THEN stateChan \o [i \in 1..Len(evs) |-> Ev(evs[i], t)]
                 ELSE stateChan

\* let _ = title_changed_sender.send(..): the result is ignored.
SendTitle(title, t) ==
    titleChan' = IF title_rx THEN Append(titleChan, [title |-> title, by |-> t])
                 ELSE titleChan

\* Mutant of stop_ops: the sentinel write is forgotten.
stop_ops_NoSentinel == <<"sink_stop", "send_stopped">>

\* RodioPlayer::stop: cursor := usize::MAX; sink.stop(); send Stopped.
stop_ops == <<"idx_max", "sink_stop", "send_stopped">>

\* RodioPlayer::clear: queue.clear(); cursor := 0; sink.clear().
clear_ops == <<"queue_clear", "idx_zero", "sink_clear">>

\* RodioPlayer::play: clone the sink and spawn start_playback_queue.
play_ops == <<"spawn_file">>

\* RodioPlayer::play_cd: stop(); clear(); spawn start_cd_playback.
play_cd_ops == stop_ops \o clear_ops \o <<"spawn_cd">>

\* Mutant of play_stream_ops: stop() is called before the stream is set up.
play_stream_ops_StopFirst ==
    <<"idx_max", "current_sink", "sink_stop", "send_stopped", "stream_connect",
      "stream_buffer", "current_sink", "spawn_stream">>

\* RodioPlayer::play_stream + start_stream_playback, the program of the
\* tokio task: set the stream up across its two awaits (either part may
\* fail), then stop() and spawn the stream thread, each on the sink that
\* current_sink() cloned from the slot just before.
play_stream_ops ==
    <<"stream_connect", "stream_buffer", "idx_max", "current_sink", "sink_stop",
      "send_stopped", "current_sink", "spawn_stream">>

\* Homeplayer::play_stream, on the UI thread: stop(); clear(); spawn the
\* task that runs RodioPlayer::play_stream.
ui_play_stream_ops == stop_ops \o clear_ops \o <<"spawn_task">>

\* RodioPlayer::switch_device: read volume; stop(); clear(); new sink with
\* that volume; swap the slot.
switch_device_ops == <<"read_volume">> \o stop_ops \o clear_ops \o <<"new_sink", "swap_sink">>

\* Mutant of skip_next_ops: the cursor is moved back as well.
skip_next_ops_Rewinds == <<"idx_sub2", "sink_stop">>

\* RodioPlayer::skip_next: sink.stop().
skip_next_ops == <<"sink_stop">>

\* RodioPlayer::skip_previous: cursor := cursor saturating_sub 2; sink.stop().
skip_previous_ops == <<"idx_sub2", "sink_stop">>

\* RodioPlayer::append.
append_ops == <<"append">>

\* RodioPlayer::pause: toggle the sink between paused and playing, then
\* send Playing or Paused.
pause_ops == <<"pause", "send_event">>

\* RodioPlayer::set_volume: current_sink().set_volume(volume).
set_volume_ops == <<"set_volume">>

\* RodioPlayer::mute: toggle between gain 0 and the remembered gain, then
\* send Muted or Unmuted.
mute_ops == <<"mute", "send_event">>

\* Gains (f32 in the source).
Volumes == {0, 1, 2}

\* Homeplayer::play_titles: clear(); append(items from start_index); play().
play_titles_ops == clear_ops \o append_ops \o play_ops

\* Commands one behaviour of the control specifications may issue.
MaxCtlCmds == 3

Idle == ctl.ops = <<>> /\ ctl.cmd # "panicked"

\* ------------------------------------------------------- session threads
InSink(t) == \E i \in 1..Len(sinkQ[tsink[t]]) : sinkQ[tsink[t]][i] = t

\* Tasks spawned in one behaviour.
MaxTasks == 1

\* A task whose play_stream may still spawn its stream thread.
TaskMaySpawn(i) == task[i].ops # <<>>

\* Session threads not yet spoken for: spawned ones and those that running
\* tasks may still spawn count against MaxThreads.
ThreadsLeft ==
    nthreads + Cardinality({i \in 1..Len(task) : TaskMaySpawn(i)}) < MaxThreads

\* The control thread calls an operation; vol is the argument of
\* set_volume.
BeginWith(cmd, ops, items, tracks, start, vol) ==
    /\ Idle
    /\ ncmds < MaxCtlCmds
    /\ ctl' = [cmd |-> cmd, ops |-> ops, items |-> items, tracks |-> tracks,
               start |-> start, vol |-> vol, ev |-> ""]
    /\ ncmds' = ncmds + 1
    /\ UNCHANGED <<cdVars, rxVars, lockVars, uiVars, taskVars, fnVars, queue, idx, curSink, nsinks, paused, volume, mute_volume, sinkQ,
                   stateChan, titleChan, nthreads, pc, kind, tsink, cur, ttracks,
                   tstart, superseded, disc, openLog>>

Begin(cmd, ops, items, tracks, start) == BeginWith(cmd, ops, items, tracks, start, 0)

\* (Ghost: the gain and the mute memory when a volume operation is called.)
LogVolume(cmd) ==
    volLog' = Append(volLog, [cmd |-> cmd, vol |-> volume[curSink], mute |-> mute_volume])

NextOp(o) == ctl.ops # <<>> /\ Head(ctl.ops) = o

\* (Ghost: when a skip takes effect, remember for each thread blocked in
\* sleep_until_end the cursor it found and how many items the thread had
\* opened.)
SkipMark ==
    skipSeen' = [t \in Threads |->
                   IF pc[t] = "wait"
                   THEN [cmd |-> ctl.cmd, cursor |-> idx,
                         opens |-> Len(SelectSeq(openLog, LAMBDA e : e.by = t))]
                   ELSE skipSeen[t]]

Advance == ctl' = [ctl EXCEPT !.ops = Tail(@)]

Call_append ==
    /\ \E items \in SeqsUpTo(SoundItem, MaxQueue) :
          /\ items # <<>>
          /\ Len(queue) + Len(items) <= MaxQueue
          /\ Begin("append", append_ops, items, <<>>, 0)
    /\ UNCHANGED <<stopCalls, stopSeen, volLog, skipSeen>>

Call_play ==
    /\ ThreadsLeft
    /\ Begin("play", play_ops, <<>>, <<>>, 0)
    /\ UNCHANGED <<stopCalls, stopSeen, volLog, skipSeen>>

Call_play_titles ==
    /\ ThreadsLeft
    /\ \E items \in SeqsUpTo(SoundItem, MaxQueue) :
          Begin("play_titles", play_titles_ops, items, <<>>, 0)
    /\ UNCHANGED <<stopCalls, stopSeen, volLog, skipSeen>>

\* Homeplayer::play_cd hands the loaded disc's track list to the engine; the
\* start index is the position among the audio tracks (cd_source.rs:179-192)
\* or 0 (main.rs:848-855).
Call_play_cd ==
    /\ ThreadsLeft
    /\ \E start \in 0..Len(disc) :
          Begin("play_cd", play_cd_ops, <<>>, disc, start)
    /\ UNCHANGED <<stopCalls, stopSeen, volLog, skipSeen>>

\* Homeplayer::play_stream.
Call_play_stream ==
    /\ ThreadsLeft
    /\ Len(task) < MaxTasks
    /\ Begin("play_stream", ui_play_stream_ops, <<>>, <<>>, 0)
    /\ UNCHANGED <<stopCalls, stopSeen, volLog, skipSeen>>

\* (Ghost: remember the threads blocked in sleep_until_end at the call.)
Call_stop ==
    /\ Begin("stop", stop_ops, <<>>, <<>>, 0)
    /\ stopCalls' = stopCalls + 1
    /\ stopSeen' = [t \in Threads |->
                      IF pc[t] = "wait" /\ InSink(t) THEN "called" ELSE stopSeen[t]]
    /\ UNCHANGED <<volLog, skipSeen>>

Call_clear ==
    /\ Begin("clear", clear_ops, <<>>, <<>>, 0)
    /\ UNCHANGED <<stopCalls, stopSeen, volLog, skipSeen>>

Call_skip_next ==
    /\ Begin("skip_next", skip_next_ops, <<>>, <<>>, 0)
    /\ UNCHANGED <<stopCalls, stopSeen, volLog, skipSeen>>

Call_skip_previous ==
    /\ Begin("skip_previous", skip_previous_ops, <<>>, <<>>, 0)
    /\ UNCHANGED <<stopCalls, stopSeen, volLog, skipSeen>>

Call_switch_device ==
    /\ nsinks < MaxSinks
    /\ Begin("switch_device", switch_device_ops, <<>>, <<>>, 0)
    /\ LogVolume("switch_device")
    /\ UNCHANGED <<stopCalls, stopSeen, skipSeen>>

Call_pause ==
    /\ Begin("pause", pause_ops, <<>>, <<>>, 0)
    /\ UNCHANGED <<stopCalls, stopSeen, volLog, skipSeen>>

Call_set_volume ==
    /\ \E v \in Volumes : BeginWith("set_volume", set_volume_ops, <<>>, <<>>, 0, v)
    /\ LogVolume("set_volume")
    /\ UNCHANGED <<stopCalls, stopSeen, skipSeen>>

Call_mute ==
    /\ Begin("mute", mute_ops, <<>>, <<>>, 0)
    /\ LogVolume("mute")
    /\ UNCHANGED <<stopCalls, stopSeen, skipSeen>>

\* --------------------------------------------- control thread, step by step
\* stop(): *idx = usize::MAX.
Op_idx_max ==
    /\ NextOp("idx_max")
    /\ idx' = USIZE_MAX
    /\ Advance
    /\ UNCHANGED <<sideVars, queue, curSink, nsinks, paused, volume, mute_volume, sinkQ,
                   stateChan, titleChan, ncmds, nthreads, pc, kind, tsink, cur,
                   ttracks, tstart, superseded, stopSeen, disc, openLog, stopCalls>>

\* current_sink().stop(): every source queued in the current sink ends.
\* (Ghost: remember which command stopped the sink under each thread that was
\* blocked in sleep_until_end with its source still queued in that sink; for
\* stop(), only a thread that was already blocked when stop() was called.)
SinkStopOn(snk, cmd) ==
    /\ sinkQ' = [sinkQ EXCEPT ![snk] = <<>>]
    /\ stopSeen' = [t \in Threads |->
                      IF /\ pc[t] = "wait" /\ tsink[t] = snk
                         /\ \E i \in 1..Len(sinkQ[snk]) : sinkQ[snk][i] = t
                         /\ cmd = "stop" => stopSeen[t] = "called"
                      THEN cmd ELSE stopSeen[t]]

\* On the control thread current_sink() is the sink of the slot: only the
\* control thread writes the slot (switch_device).
SinkStop(cmd) == SinkStopOn(curSink, cmd)

Op_sink_stop ==
    /\ NextOp("sink_stop")
    /\ SinkStop(ctl.cmd)
    /\ IF ctl.cmd = "skip_next" THEN SkipMark ELSE UNCHANGED skipSeen
    /\ Advance
    /\ UNCHANGED <<cdVars, rxVars, volLog, lockVars, uiVars, taskVars, fnVars,
                   queue, idx, curSink, nsinks, paused, volume, mute_volume,
                   stateChan, titleChan, ncmds, nthreads, pc, kind, tsink, cur,
                   ttracks, tstart, superseded, disc, openLog, stopCalls>>

\* stop(): button_state_sender.send(Stopped).
Op_send_stopped ==
    /\ NextOp("send_stopped")
    /\ SendState(<<"Stopped">>, 0)
    /\ Advance
    /\ UNCHANGED <<sideVars, queue, idx, curSink, nsinks, paused, volume, mute_volume, sinkQ,
                   titleChan, ncmds, nthreads, pc, kind, tsink, cur,
                   ttracks, tstart, superseded, stopSeen, disc, openLog, stopCalls>>

\* clear(): sound_queue.clear().
Op_queue_clear ==
    /\ NextOp("queue_clear")
    /\ queue' = <<>>
    /\ Advance
    /\ UNCHANGED <<sideVars, idx, curSink, nsinks, paused, volume, mute_volume, sinkQ,
                   stateChan, titleChan, ncmds, nthreads, pc, kind, tsink, cur,
                   ttracks, tstart, superseded, stopSeen, disc, openLog, stopCalls>>

\* clear(): *sound_queue_index = 0.
Op_idx_zero ==
    /\ NextOp("idx_zero")
    /\ idx' = 0
    /\ Advance
    /\ UNCHANGED <<sideVars, queue, curSink, nsinks, paused, volume, mute_volume, sinkQ,
                   stateChan, titleChan, ncmds, nthreads, pc, kind, tsink, cur,
                   ttracks, tstart, superseded, stopSeen, disc, openLog, stopCalls>>

\* clear(): current_sink().clear() drops the queued sources and pauses the
\* sink.  (Ghost: play_cd and switch_device have now stopped and cleared
\* the session threads that were playing when they began.)
Op_sink_clear ==
    /\ NextOp("sink_clear")
    /\ sinkQ' = [sinkQ EXCEPT ![curSink] = <<>>]
    /\ paused' = [paused EXCEPT ![curSink] = TRUE]
    /\ superseded' = [t \in Threads |->
                        IF ctl.cmd \in {"play_cd", "switch_device"} /\ Live(t)
                           /\ stopSeen[t] = ctl.cmd
                        THEN ctl.cmd ELSE superseded[t]]
    /\ Advance
    /\ UNCHANGED <<sideVars, queue, idx, curSink, nsinks, volume, mute_volume,
                   stateChan, titleChan, ncmds, nthreads, pc, kind, tsink, cur,
                   ttracks, tstart, stopSeen, disc, openLog, stopCalls>>

\* Mutant of VecAppend: the new items go in front.
VecAppend_InFront(q, items) == items \o q

\* Vec::append: all of items, in order, after the elements of q.
VecAppend(q, items) == q \o items

\* append(): sound_queue.append(items).
Op_append ==
    /\ NextOp("append")
    /\ queue' = VecAppend(queue, ctl.items)
    /\ Advance
    /\ UNCHANGED <<sideVars, idx, curSink, nsinks, paused, volume, mute_volume, sinkQ,
                   stateChan, titleChan, ncmds, nthreads, pc, kind, tsink, cur,
                   ttracks, tstart, superseded, stopSeen, disc, openLog, stopCalls>>

\* Mutant of SaturatingSub2: the cursor goes back by one only.
SaturatingSub2_ByOne(c) == IF c >= 1 THEN c - 1 ELSE 0

\* Mutant of SaturatingSub2: wrapping subtraction.
SaturatingSub2_Wrapping(c) == IF c >= 2 THEN c - 2 ELSE USIZE_MAX - 1 + c

\* skip_previous(): *idx = idx.saturating_sub(2).
SaturatingSub2(c) == IF c >= 2 THEN c - 2 ELSE 0

Op_idx_sub2 ==
    /\ NextOp("idx_sub2")
    /\ idx' = SaturatingSub2(idx)
    /\ SkipMark
    /\ Advance
    /\ UNCHANGED <<cdVars, rxVars, volLog, lockVars, uiVars, taskVars, fnVars,
                   queue, curSink, nsinks, paused, volume, mute_volume, sinkQ,
                   stateChan, titleChan, ncmds, nthreads, pc, kind, tsink, cur,
                   ttracks, tstart, superseded, stopSeen, disc, openLog, stopCalls>>

\* Spawning a session thread: the closure captures a clone of the current
\* inner Arc<Sink>; the thread has not run yet.
SpawnSessionOn(snk, k, tracks, start) ==
    LET t == nthreads + 1 IN
    /\ nthreads' = t
    /\ pc' = [pc EXCEPT ![t] = "begin"]
    /\ kind' = [kind EXCEPT ![t] = k]
    /\ tsink' = [tsink EXCEPT ![t] = snk]
    /\ ttracks' = [ttracks EXCEPT ![t] = tracks]
    /\ tstart' = [tstart EXCEPT ![t] = start]

\* The control thread clones the sink of the slot (current_sink()) and
\* spawns; only the control thread writes the slot.
Spawn(k, tracks, start) ==
    /\ SpawnSessionOn(curSink, k, tracks, start)
    /\ Advance
    /\ UNCHANGED <<sideVars, queue, idx, curSink, nsinks, paused, volume, mute_volume, sinkQ,
                   stateChan, titleChan, ncmds, cur, superseded, stopSeen, disc, openLog,
                   stopCalls>>

\* play(): spawn(start_playback_queue).
Op_spawn_file == NextOp("spawn_file") /\ Spawn("file", <<>>, 0)

\* play_cd(): spawn(start_cd_playback(tracks, start_index)).
Op_spawn_cd == NextOp("spawn_cd") /\ Spawn("cd", ctl.tracks, ctl.start)

\* Homeplayer::play_stream: tokio_rt.spawn(async move { player_clone
\* .play_stream(..).await }).  (Ghost: setup is "pending" until the task's
\* setup has succeeded, "ok", or failed, the name of the failing step.)
Op_spawn_task ==
    /\ NextOp("spawn_task")
    /\ task' = Append(task, [ops |-> play_stream_ops, setup |-> "pending", sink |-> 0])
    /\ Advance
    /\ UNCHANGED <<cdVars, rxVars, volLog, skipSeen, lockVars, uiVars, fnVars,
                   queue, idx, curSink, nsinks, paused, volume, mute_volume, sinkQ,
                   stateChan, titleChan, ncmds, nthreads, pc, kind, tsink, cur,
                   ttracks, tstart, superseded, stopSeen, disc, openLog, stopCalls>>

\* ------------------------------------------- the play_stream task, by step
\* The task runs on a worker of the tokio runtime, beside the control
\* thread and the session threads.
TaskNextOp(i, o) == i \in 1..Len(task) /\ task[i].ops # <<>> /\ Head(task[i].ops) = o

TaskAdvance(i) == task' = [task EXCEPT ![i].ops = Tail(@)]

\* What a task's step leaves alone besides the engine state it names.
TaskUnchanged ==
    UNCHANGED <<cdVars, rxVars, volLog, skipSeen, lockVars, uiVars, fnVars,
                ctl, ncmds, queue, disc, openLog, stopCalls, curSink, nsinks,
                paused, volume, mute_volume, titleChan, cur, superseded>>

\* play_stream(): the steps that can fail, each ending the call with `?`.
\* Up to the first await: Client build, url.parse(), HttpStream::new.
ConnectSteps == {"client", "url", "connect"}

\* From there to the second await: the Icy-Br header parse,
\* StreamDownload::from_stream.
BufferSteps == {"bitrate", "buffer"}

StreamSetupSteps == ConnectSteps \cup BufferSteps

\* A part of the setup ends: with r = "ok" the task goes on, else
\* play_stream returns the error of step r and the task is over.
TaskSetup(i, r, last) ==
    task' = [task EXCEPT ![i].ops = IF r = "ok" THEN Tail(@) ELSE <<>>,
                         ![i].setup = IF r = "ok" /\ ~last THEN @ ELSE r]

\* play_stream() up to the return of HttpStream::new(..).await.
Task_connect(i) ==
    /\ TaskNextOp(i, "stream_connect")
    /\ \E r \in ConnectSteps \cup {"ok"} : TaskSetup(i, r, FALSE)
    /\ TaskUnchanged
    /\ UNCHANGED <<idx, sinkQ, stopSeen, stateChan, nthreads, pc, kind, tsink,
                   ttracks, tstart>>

\* play_stream() from there up to the return of
\* StreamDownload::from_stream(..).await.
Task_buffer(i) ==
    /\ TaskNextOp(i, "stream_buffer")
    /\ \E r \in BufferSteps \cup {"ok"} : TaskSetup(i, r, TRUE)
    /\ TaskUnchanged
    /\ UNCHANGED <<idx, sinkQ, stopSeen, stateChan, nthreads, pc, kind, tsink,
                   ttracks, tstart>>

\* start_stream_playback(): stop(), first statement.
Task_idx_max(i) ==
    /\ TaskNextOp(i, "idx_max")
    /\ idx' = USIZE_MAX
    /\ TaskAdvance(i)
    /\ TaskUnchanged
    /\ UNCHANGED <<sinkQ, stopSeen, stateChan, nthreads, pc, kind, tsink,
                   ttracks, tstart>>

\* stop() and start_stream_playback(): current_sink(), the clone of the
\* slot's sink under the sink lock; the control thread may swap the slot
\* before the task uses the clone.
Task_current_sink(i) ==
    /\ TaskNextOp(i, "current_sink")
    /\ task' = [task EXCEPT ![i].ops = Tail(@), ![i].sink = curSink]
    /\ TaskUnchanged
    /\ UNCHANGED <<idx, sinkQ, stopSeen, stateChan, nthreads, pc, kind, tsink,
                   ttracks, tstart>>

\* stop(): sink.stop() on the clone.
Task_sink_stop(i) ==
    /\ TaskNextOp(i, "sink_stop")
    /\ SinkStopOn(task[i].sink, "play_stream")
    /\ TaskAdvance(i)
    /\ TaskUnchanged
    /\ UNCHANGED <<idx, stateChan, nthreads, pc, kind, tsink, ttracks, tstart>>

\* stop(): send Stopped.
Task_send_stopped(i) ==
    /\ TaskNextOp(i, "send_stopped")
    /\ SendState(<<"Stopped">>, 0)
    /\ TaskAdvance(i)
    /\ TaskUnchanged
    /\ UNCHANGED <<idx, sinkQ, stopSeen, nthreads, pc, kind, tsink, ttracks, tstart>>

\* start_stream_playback(): spawn of the stream thread, which owns the
\* clone.
Task_spawn_stream(i) ==
    /\ TaskNextOp(i, "spawn_stream")
    /\ SpawnSessionOn(task[i].sink, "stream", <<>>, 0)
    /\ TaskAdvance(i)
    /\ TaskUnchanged
    /\ UNCHANGED <<idx, sinkQ, stopSeen, stateChan>>

TaskStep(i) ==
    \/ Task_connect(i)
    \/ Task_buffer(i)
    \/ Task_idx_max(i)
    \/ Task_current_sink(i)
    \/ Task_sink_stop(i)
    \/ Task_send_stopped(i)
    \/ Task_spawn_stream(i)

Tasks == 1..MaxTasks

\* switch_device(): let volume = sink.volume().
Op_read_volume ==
    /\ NextOp("read_volume")
    /\ ctl' = [ctl EXCEPT !.ops = Tail(@), !.vol = volume[curSink]]
    /\ UNCHANGED <<sideVars, queue, idx, curSink, nsinks, paused, volume, mute_volume, sinkQ,
                   stateChan, titleChan, ncmds, nthreads, pc, kind, tsink, cur,
                   ttracks, tstart, superseded, stopSeen, disc, openLog, stopCalls>>

\* Mutant of NewSinkVolume: the new sink keeps rodio's default gain.
NewSinkVolume_Default(v) == DefaultVolume

\* switch_device(): new_sink.set_volume(volume).
NewSinkVolume(v) == v

\* switch_device(): open_output_stream; Sink::connect_new; set_volume(volume).
\* open_output_stream falls back to the default device and panics (.expect)
\* when that cannot be opened.
Op_new_sink ==
    /\ NextOp("new_sink")
    /\ \E ok \in BOOLEAN :
          IF ok
          THEN /\ nsinks' = nsinks + 1
               /\ volume' = [volume EXCEPT ![nsinks + 1] = NewSinkVolume(ctl.vol)]
               /\ Advance
          ELSE /\ ctl' = [ctl EXCEPT !.cmd = "panicked", !.ops = <<>>]
               /\ UNCHANGED <<nsinks, volume>>
    /\ UNCHANGED <<sideVars, queue, idx, curSink, paused, mute_volume, sinkQ,
                   stateChan, titleChan, ncmds, nthreads, pc, kind, tsink, cur,
                   ttracks, tstart, superseded, stopSeen, disc, openLog, stopCalls>>

\* switch_device(): *self.sink.lock() = new_sink.
Op_swap_sink ==
    /\ NextOp("swap_sink")
    /\ curSink' = nsinks
    /\ Advance
    /\ UNCHANGED <<sideVars, queue, idx, nsinks, paused, volume, mute_volume, sinkQ,
                   stateChan, titleChan, ncmds, nthreads, pc, kind, tsink, cur,
                   ttracks, tstart, superseded, stopSeen, disc, openLog, stopCalls>>

\* pause(): if sink.is_paused() { sink.play() } else { sink.pause() }; the
\* branch taken decides the event sent next.
Op_pause ==
    /\ NextOp("pause")
    /\ paused' = [paused EXCEPT ![curSink] = ~@]
    /\ ctl' = [ctl EXCEPT !.ops = Tail(@),
                          !.ev = IF paused[curSink] THEN "Playing" ELSE "Paused"]
    /\ UNCHANGED <<sideVars, queue, idx, curSink, nsinks, volume, mute_volume, sinkQ,
                   stateChan, titleChan, ncmds, nthreads, pc, kind, tsink, cur,
                   ttracks, tstart, superseded, stopSeen, disc, openLog, stopCalls>>

\* pause() / mute(): let _ = button_state_sender.send(..), the last
\* statement of the branch taken.
Op_send_event ==
    /\ NextOp("send_event")
    /\ SendState(<<ctl.ev>>, 0)
    /\ Advance
    /\ UNCHANGED <<sideVars, queue, idx, curSink, nsinks, paused, volume, mute_volume, sinkQ,
                   titleChan, ncmds, nthreads, pc, kind, tsink, cur,
                   ttracks, tstart, superseded, stopSeen, disc, openLog, stopCalls>>

\* set_volume(): current_sink().set_volume(volume).
Op_set_volume ==
    /\ NextOp("set_volume")
    /\ volume' = [volume EXCEPT ![curSink] = ctl.vol]
    /\ Advance
    /\ UNCHANGED <<sideVars, queue, idx, curSink, nsinks, paused, mute_volume, sinkQ,
                   stateChan, titleChan, ncmds, nthreads, pc, kind, tsink, cur,
                   ttracks, tstart, superseded, stopSeen, disc, openLog, stopCalls>>

\* Mutant of MuteMemory: the gain is not remembered when muting.
MuteMemory_Forgets(v, m) == 0

\* mute(): the mute memory after the call: the gain if it was non-zero
\* (*mute_vol = sink.volume()), else zero (*mute_vol = 0.0).
MuteMemory(v, m) == IF v # 0 THEN v ELSE 0

\* mute(): the gain after the call: zero if it was non-zero, else the
\* remembered gain.
MuteGain(v, m) == IF v # 0 THEN 0 ELSE m

\* mute(): under the mute_volume lock, remember the gain and set it to
\* zero, or restore the remembered gain and forget it; the branch taken
\* decides the event sent next.
Op_mute ==
    /\ NextOp("mute")
    /\ volume' = [volume EXCEPT ![curSink] = MuteGain(volume[curSink], mute_volume)]
    /\ mute_volume' = MuteMemory(volume[curSink], mute_volume)
    /\ ctl' = [ctl EXCEPT !.ops = Tail(@),
                          !.ev = IF volume[curSink] # 0 THEN "Muted" ELSE "Unmuted"]
    /\ UNCHANGED <<sideVars, queue, idx, curSink, nsinks, paused, sinkQ,
                   stateChan, titleChan, ncmds, nthreads, pc, kind, tsink, cur,
                   ttracks, tstart, superseded, stopSeen, disc, openLog, stopCalls>>

\* player_sink.append(source): the source is queued in the thread's own
\* sink handle.
SinkAppend(t) == sinkQ' = [sinkQ EXCEPT ![tsink[t]] = Append(@, t)]

\* A session thread's `send(..)?`: when the send fails the thread returns
\* the error; the stream thread ignores the result (`let _ = send(..)`).
AfterSend(t, next) == IF kind[t] # "stream" /\ ~state_rx THEN "failed" ELSE next

\* start_playback_queue / start_cd_playback / stream thread: send Playing.
T_begin(t) ==
    /\ pc[t] = "begin"
    /\ SendState(<<"Playing">>, t)
    /\ pc' = [pc EXCEPT ![t] = AfterSend(t, IF kind[t] = "stream" THEN "start"
                                            ELSE "seekable")]
    /\ UNCHANGED <<sideVars, queue, idx, curSink, nsinks, paused, volume, mute_volume, sinkQ,
                   titleChan, ctl, ncmds, nthreads, kind, tsink, cur, ttracks,
                   tstart, superseded, stopSeen, disc, openLog, stopCalls>>

\* start_playback_queue / start_cd_playback: send Seekable.
T_seekable(t) ==
    /\ pc[t] = "seekable"
    /\ SendState(<<"Seekable">>, t)
    /\ pc' = [pc EXCEPT ![t] = AfterSend(t, "start")]
    /\ UNCHANGED <<sideVars, queue, idx, curSink, nsinks, paused, volume, mute_volume, sinkQ,
                   titleChan, ctl, ncmds, nthreads, kind, tsink, cur, ttracks,
                   tstart, superseded, stopSeen, disc, openLog, stopCalls>>

\* All three kinds of thread: send StartPlaying, the last send before the
\* loop (file), the cursor reset (cd) or the decoder (stream).
T_start_playing(t) ==
    /\ pc[t] = "start"
    /\ SendState(<<"StartPlaying">>, t)
    /\ pc' = [pc EXCEPT ![t] = AfterSend(t, CASE kind[t] = "stream" -> "open"
                                              [] kind[t] = "cd" -> "reset"
                                              [] OTHER -> "take")]
    /\ UNCHANGED <<sideVars, queue, idx, curSink, nsinks, paused, volume, mute_volume, sinkQ,
                   titleChan, ctl, ncmds, nthreads, kind, tsink, cur, ttracks,
                   tstart, superseded, stopSeen, disc, openLog, stopCalls>>

\* start_cd_playback: *queue_index = start_index.
Cd_reset(t) ==
    /\ pc[t] = "reset"
    /\ idx' = tstart[t]
    /\ pc' = [pc EXCEPT ![t] = "take"]
    /\ UNCHANGED <<sideVars, queue, curSink, nsinks, paused, volume, mute_volume, sinkQ,
                   stateChan, titleChan, ctl, ncmds, nthreads, kind, tsink, cur,
                   ttracks, tstart, superseded, stopSeen, disc, openLog, stopCalls>>

\* Mutant of File_take: the bound check lets the queue length itself pass.
File_take_OffByOne(t) ==
    /\ pc[t] = "take"
    /\ kind[t] = "file"
    /\ IF idx > Len(queue)
       THEN /\ pc' = [pc EXCEPT ![t] = "finish"]
            /\ UNCHANGED <<idx, cur>>
       ELSE /\ cur' = [cur EXCEPT ![t] = IF idx < Len(queue) THEN queue[idx + 1] ELSE NoItem]
            /\ idx' = idx + 1
            /\ pc' = [pc EXCEPT ![t] = "title"]
    /\ UNCHANGED <<sideVars, queue, curSink, nsinks, paused, volume, mute_volume, sinkQ,
                   stateChan, titleChan, ctl, ncmds, nthreads, kind, tsink,
                   ttracks, tstart, superseded, stopSeen, disc, openLog, stopCalls>>

\* Mutant of File_take: the cursor is not advanced.
File_take_NoAdvance(t) ==
    /\ pc[t] = "take"
    /\ kind[t] = "file"
    /\ IF idx >= Len(queue)
       THEN /\ pc' = [pc EXCEPT ![t] = "finish"]
            /\ UNCHANGED <<idx, cur>>
       ELSE /\ cur' = [cur EXCEPT ![t] = queue[idx + 1]]
            /\ idx' = idx
            /\ pc' = [pc EXCEPT ![t] = "title"]
    /\ UNCHANGED <<sideVars, queue, curSink, nsinks, paused, volume, mute_volume, sinkQ,
                   stateChan, titleChan, ctl, ncmds, nthreads, kind, tsink,
                   ttracks, tstart, superseded, stopSeen, disc, openLog, stopCalls>>

\* start_playback_queue: under the queue lock and the cursor lock, break if
\* the cursor is at or past the queue length, else clone queue[cursor] and
\* advance the cursor.
File_take(t) ==
    /\ pc[t] = "take"
    /\ kind[t] = "file"
    /\ IF idx >= Len(queue)
       THEN /\ pc' = [pc EXCEPT ![t] = "finish"]
            /\ UNCHANGED <<idx, cur>>
       ELSE /\ cur' = [cur EXCEPT ![t] = queue[idx + 1]]
            /\ idx' = idx + 1
            /\ pc' = [pc EXCEPT ![t] = "title"]
    /\ UNCHANGED <<sideVars, queue, curSink, nsinks, paused, volume, mute_volume, sinkQ,
                   stateChan, titleChan, ctl, ncmds, nthreads, kind, tsink,
                   ttracks, tstart, superseded, stopSeen, disc, openLog, stopCalls>>

\* start_cd_playback: under the cursor lock, break if the cursor is at or
\* past the number of audio tracks, else advance it and use the old value.
Cd_take(t) ==
    /\ pc[t] = "take"
    /\ kind[t] = "cd"
    /\ LET audio_tracks == SelectAudio(ttracks[t]) IN
       IF idx >= Len(audio_tracks)
       THEN /\ pc' = [pc EXCEPT ![t] = "finish"]
            /\ UNCHANGED <<idx, cur>>
       ELSE /\ cur' = [cur EXCEPT ![t] = audio_tracks[idx + 1]]
            /\ idx' = idx + 1
            /\ pc' = [pc EXCEPT ![t] = "title"]
    /\ UNCHANGED <<sideVars, queue, curSink, nsinks, paused, volume, mute_volume, sinkQ,
                   stateChan, titleChan, ctl, ncmds, nthreads, kind, tsink,
                   ttracks, tstart, superseded, stopSeen, disc, openLog, stopCalls>>

\* What an item is called in its TitleChanged: the title of a queue item,
\* "Track n" of a CD track.
TitleOf(t) == IF kind[t] = "cd" THEN cur[t].number ELSE cur[t].title

\* start_playback_queue / start_cd_playback: let _ = send(TitleChanged {..}),
\* no lock held.
T_title(t) ==
    /\ pc[t] = "title"
    /\ SendTitle(TitleOf(t), t)
    /\ pc' = [pc EXCEPT ![t] = "open"]
    /\ UNCHANGED <<sideVars, queue, idx, curSink, nsinks, paused, volume, mute_volume, sinkQ,
                   stateChan, ctl, ncmds, nthreads, kind, tsink, cur, ttracks,
                   tstart, superseded, stopSeen, disc, openLog, stopCalls>>

\* start_playback_queue: File::open / metadata / decoder build, each of
\* which ends the thread with an error (`?`); then player_sink.append.
File_open(t) ==
    /\ pc[t] = "open"
    /\ kind[t] = "file"
    /\ openLog' = Append(openLog, [what |-> cur[t].title, by |-> t])
    /\ IF cur[t].path_ok
       THEN /\ SinkAppend(t)
            /\ pc' = [pc EXCEPT ![t] = "play"]
       ELSE /\ pc' = [pc EXCEPT ![t] = "failed"]
            /\ UNCHANGED sinkQ
    /\ UNCHANGED <<sideVars, queue, idx, curSink, nsinks, paused, volume, mute_volume,
                   stateChan, titleChan, ctl, ncmds, nthreads, kind, tsink, cur,
                   ttracks, tstart, superseded, stopSeen, disc, stopCalls>>

\* cd_audio::open_track: an error for a data track, else the device open of
\* CdTrackSource::new, which may fail.
OpenTrackOutcomes(track) == IF track.is_audio THEN {TRUE, FALSE} ELSE {FALSE}

\* Mutant of OnOpenTrackError: the error ends the thread.
OnOpenTrackError_Ends == "failed"

\* start_cd_playback, Err(e) arm of the open_track match: error!(..) and
\* fall through to the next iteration of the loop.
OnOpenTrackError == "take"

\* start_cd_playback: open_track; on success player_sink.append, on
\* failure log and loop.
Cd_open(t) ==
    /\ pc[t] = "open"
    /\ kind[t] = "cd"
    /\ openLog' = Append(openLog, [what |-> cur[t].number, by |-> t])
    /\ \E ok \in OpenTrackOutcomes(cur[t]) :
          IF ok
          THEN /\ SinkAppend(t)
               /\ pc' = [pc EXCEPT ![t] = "play"]
          ELSE /\ pc' = [pc EXCEPT ![t] = OnOpenTrackError]
               /\ UNCHANGED sinkQ
    /\ UNCHANGED <<sideVars, queue, idx, curSink, nsinks, paused, volume, mute_volume,
                   stateChan, titleChan, ctl, ncmds, nthreads, kind, tsink, cur,
                   ttracks, tstart, superseded, stopSeen, disc, stopCalls>>

\* const UNKNOWN: &str = "-".
UNKNOWN == <<"-">>

\* The position of the first c in s at or after i, or 0.
RECURSIVE Find(_, _, _)
Find(s, c, i) ==
    IF i > Len(s) THEN 0 ELSE IF s[i] = c THEN i ELSE Find(s, c, i + 1)

\* str::split_once: the text before and after the first c, if there is one.
split_once(s, c) ==
    LET i == Find(s, c, 1)
    IN IF i = 0 THEN [some |-> FALSE, a |-> <<>>, b |-> <<>>]
       ELSE [some |-> TRUE, a |-> SubSeq(s, 1, i - 1), b |-> SubSeq(s, i + 1, Len(s))]

RECURSIVE trim_start(_)
trim_start(s) == IF s # <<>> /\ Head(s) = " " THEN trim_start(Tail(s)) ELSE s

RECURSIVE trim_end(_)
trim_end(s) ==
    IF s # <<>> /\ s[Len(s)] = " " THEN trim_end(SubSeq(s, 1, Len(s) - 1)) ELSE s

\* str::trim.
trim(s) == trim_end(trim_start(s))

\* The callback given to IcyMetadataReader::new: the TitleChanged it sends.
MetadataCallback(meta, s, icon) ==
    LET stream_title == IF meta = "ok" THEN s ELSE UNKNOWN
        sp == split_once(stream_title, "-")
        artist == IF sp.some THEN sp.a ELSE stream_title
        title == IF sp.some THEN sp.b ELSE UNKNOWN
        q == split_once(title, "'")
        normalized_title == IF q.some THEN q.a ELSE title
    IN [title |-> trim(normalized_title), artist |-> trim(artist),
        album |-> UNKNOWN, cover |-> icon]

\* Metadata blocks the reader meets in one stream.
MaxStreamTitles == 2

\* The title the callback of IcyMetadataReader sends for the stream title
\* "x-x".
StreamTitles == {MetadataCallback("ok", <<"x", "-", "x">>, "icon1").title}

\* The callback of IcyMetadataReader::new sends the title of a metadata
\* block: on the stream thread while Decoder::new reads the head of the
\* stream, and on the audio output's thread from the moment the source is
\* appended to the sink, whether or not player_sink.play() was called yet.
\* (The title is recorded with the stream thread whose reader it comes
\* from.)
Stream_metadata(t) ==
    /\ kind[t] = "stream"
    /\ pc[t] = "open" \/ (pc[t] \in {"play", "wait"} /\ InSink(t))
    /\ title_rx
    /\ Len(SelectSeq(titleChan, LAMBDA e : e.by = t)) < MaxStreamTitles
    /\ \E title \in StreamTitles : SendTitle(title, t)
    /\ UNCHANGED <<sideVars, queue, idx, curSink, nsinks, paused, volume, mute_volume, sinkQ,
                   stateChan, ctl, ncmds, nthreads, pc, kind, tsink, cur,
                   ttracks, tstart, superseded, stopSeen, disc, openLog, stopCalls>>

\* Stream thread: Decoder::new(stream_reader) returns; unwrap() panics on a
\* decoder error; else player_sink.append.
Stream_open(t) ==
    /\ pc[t] = "open"
    /\ kind[t] = "stream"
    /\ \E ok \in BOOLEAN :
          IF ok
          THEN /\ SinkAppend(t)
               /\ pc' = [pc EXCEPT ![t] = "play"]
          ELSE /\ pc' = [pc EXCEPT ![t] = "panicked"]
               /\ UNCHANGED sinkQ
    /\ UNCHANGED <<sideVars, queue, idx, curSink, nsinks, paused, volume, mute_volume,
                   stateChan, titleChan, ctl, ncmds, nthreads, kind, tsink, cur,
                   ttracks, tstart, superseded, stopSeen, disc, openLog, stopCalls>>

\* All three kinds of thread: player_sink.play(), after which the thread
\* blocks in sleep_until_end.
T_play(t) ==
    /\ pc[t] = "play"
    /\ paused' = [paused EXCEPT ![tsink[t]] = FALSE]
    /\ pc' = [pc EXCEPT ![t] = "wait"]
    /\ UNCHANGED <<sideVars, queue, idx, curSink, nsinks, volume, mute_volume, sinkQ,
                   stateChan, titleChan, ctl, ncmds, nthreads, kind, tsink, cur,
                   ttracks, tstart, superseded, stopSeen, disc, openLog, stopCalls>>

\* sleep_until_end returns once the thread's source is no longer queued in
\* its sink (drained, stopped or cleared); file and CD threads loop, the
\* stream thread goes on to its final send.
T_wake(t) ==
    /\ pc[t] = "wait"
    /\ ~InSink(t)
    /\ pc' = [pc EXCEPT ![t] = IF kind[t] = "stream" THEN "finish" ELSE "take"]
    /\ UNCHANGED <<sideVars, queue, idx, curSink, nsinks, paused, volume, mute_volume, sinkQ,
                   stateChan, titleChan, ctl, ncmds, nthreads, kind, tsink, cur,
                   ttracks, tstart, superseded, stopSeen, disc, openLog, stopCalls>>

\* Mutant of FinishEvents: a thread ends without its Stopped.
FinishEvents_NoStopped(k) == <<"Unseekable">>

\* The events a session thread sends after its loop.
FinishEvents(k) == IF k = "stream" THEN <<"Stopped">> ELSE <<"Stopped", "Unseekable">>

\* After the loop: send Stopped (`?`; stream thread: result ignored, and
\* the thread ends).
T_finish(t) ==
    /\ pc[t] = "finish"
    /\ SendState(SubSeq(FinishEvents(kind[t]), 1, 1), t)
    /\ pc' = [pc EXCEPT ![t] = AfterSend(t, IF Len(FinishEvents(kind[t])) > 1
                                            THEN "unseekable" ELSE "done")]
    /\ UNCHANGED <<sideVars, queue, idx, curSink, nsinks, paused, volume, mute_volume, sinkQ,
                   titleChan, ctl, ncmds, nthreads, kind, tsink, cur, ttracks,
                   tstart, superseded, stopSeen, disc, openLog, stopCalls>>

\* start_playback_queue / start_cd_playback: send Unseekable (`?`), Ok(()).
T_unseekable(t) ==
    /\ pc[t] = "unseekable"
    /\ SendState(SubSeq(FinishEvents(kind[t]), 2, 2), t)
    /\ pc' = [pc EXCEPT ![t] = AfterSend(t, "done")]
    /\ UNCHANGED <<sideVars, queue, idx, curSink, nsinks, paused, volume, mute_volume, sinkQ,
                   titleChan, ctl, ncmds, nthreads, kind, tsink, cur, ttracks,
                   tstart, superseded, stopSeen, disc, openLog, stopCalls>>

\* The audio output thread: the source at the head of an un-paused sink
\* plays to its end.
SinkDrain(s) ==
    /\ sinkQ[s] # <<>>
    /\ ~paused[s]
    /\ sinkQ' = [sinkQ EXCEPT ![s] = Tail(@)]
    /\ UNCHANGED <<sideVars, queue, idx, curSink, nsinks, paused, volume, mute_volume,
                   stateChan, titleChan, ctl, ncmds, nthreads, pc, kind, tsink,
                   cur, ttracks, tstart, superseded, stopSeen, disc, openLog, stopCalls>>

\* ------------------------------------------------------------ the engine
ThreadStep(t) ==
    \/ T_begin(t)
    \/ T_seekable(t)
    \/ T_start_playing(t)
    \/ T_title(t)
    \/ T_play(t)
    \/ Cd_reset(t)
    \/ File_take(t)
    \/ Cd_take(t)
    \/ File_open(t)
    \/ Cd_open(t)
    \/ T_wake(t)
    \/ T_finish(t)
    \/ T_unseekable(t)

CtlStep ==
    \/ Op_idx_max
    \/ Op_sink_stop
    \/ Op_send_stopped
    \/ Op_queue_clear
    \/ Op_idx_zero
    \/ Op_sink_clear
    \/ Op_append
    \/ Op_idx_sub2
    \/ Op_spawn_file
    \/ Op_spawn_cd
    \/ Op_read_volume
    \/ Op_new_sink
    \/ Op_swap_sink

Command ==
    /\ ncmds < MaxCmds
    /\ \/ Call_append
       \/ Call_play
       \/ Call_play_titles
       \/ Call_play_cd
       \/ Call_stop
       \/ Call_clear
       \/ Call_skip_next
       \/ Call_skip_previous
       \/ Call_switch_device

\* The discs the engine as a whole is run with: none, one audio track, an
\* audio track before a data track, a data track before two audio tracks.
EngineDiscs ==
    {DiscOf(f) : f \in {<<>>, <<TRUE>>, <<TRUE, FALSE>>, <<FALSE, TRUE, TRUE>>}}

Init == InitEngine /\ disc \in EngineDiscs /\ UiIdle

Next ==
    \/ Command
    \/ CtlStep
    \/ \E t \in Threads : ThreadStep(t)
    \/ \E s \in Sinks : SinkDrain(s)

Spec == Init /\ [][Next]_vars

\* ------------------------------------------------- one session, then stop
\* The engine after some append() calls (a queue of up to MaxInitQueue items,
\* cursor 0) and with a disc loaded; one play() or play_cd() starts the only
\* session, and stop() may be called once while it exists.  Session threads,
\* the control thread and the audio output are scheduled fairly.
InitSession ==
    /\ queue \in SeqsUpTo(SoundItem, MaxInitQueue)
    /\ InitRest
    /\ CdIdle
    /\ RxConnected
    /\ disc \in Discs
    /\ UiIdle

Sess_play == nthreads = 0 /\ Call_play

Sess_play_cd == nthreads = 0 /\ Call_play_cd

Sess_stop == nthreads = 1 /\ stopCalls = 0 /\ Call_stop

SessionCtlStep ==
    \/ Op_idx_max
    \/ Op_sink_stop
    \/ Op_send_stopped
    \/ Op_queue_clear
    \/ Op_idx_zero
    \/ Op_sink_clear
    \/ Op_spawn_file
    \/ Op_spawn_cd

SessionThreadStep(t) ==
    \/ T_begin(t)
    \/ T_seekable(t)
    \/ T_start_playing(t)
    \/ T_title(t)
    \/ T_play(t)
    \/ Cd_reset(t)
    \/ File_take(t)
    \/ Cd_take(t)
    \/ File_open(t)
    \/ Cd_open(t)
    \/ T_wake(t)
    \/ T_finish(t)
    \/ T_unseekable(t)

NextSession ==
    \/ Sess_play
    \/ Sess_play_cd
    \/ Sess_stop
    \/ SessionCtlStep
    \/ \E t \in Threads : SessionThreadStep(t)
    \/ \E s \in Sinks : SinkDrain(s)

SpecSession ==
    /\ InitSession
    /\ [][NextSession]_vars
    /\ WF_vars(SessionCtlStep)
    /\ \A t \in Threads : WF_vars(SessionThreadStep(t))
    /\ \A s \in Sinks : WF_vars(SinkDrain(s))

\* ------------------------------------------- one session, receivers lost
\* As SpecSession, but the application may drop either Receiver at any time.
Drop_state_rx ==
    /\ state_rx
    /\ state_rx' = FALSE
    /\ UNCHANGED <<engineVars, cdVars, title_rx, volLog, skipSeen, lockVars, uiVars, taskVars, fnVars>>

Drop_title_rx ==
    /\ title_rx
    /\ title_rx' = FALSE
    /\ UNCHANGED <<engineVars, cdVars, state_rx, volLog, skipSeen, lockVars, uiVars, taskVars, fnVars>>

NextRx ==
    \/ NextSession
    \/ Drop_state_rx
    \/ Drop_title_rx

SpecRx == InitSession /\ [][NextRx]_vars

\* ------------------------------------------------------------ transport
\* The engine after some append() calls of playable items; the control
\* thread issues up to MaxCtlCmds of play, pause and stop.
InitControl ==
    /\ queue \in SeqsUpTo({[title |-> "a", path_ok |-> TRUE]}, MaxInitQueue)
    /\ InitRest
    /\ CdIdle
    /\ RxConnected
    /\ disc = <<>>
    /\ UiIdle

ControlCtlStep ==
    \/ Op_idx_max
    \/ Op_sink_stop
    \/ Op_send_stopped
    \/ Op_spawn_file
    \/ Op_pause
    \/ Op_send_event

ControlThreadStep(t) ==
    \/ T_begin(t)
    \/ T_seekable(t)
    \/ T_start_playing(t)
    \/ T_title(t)
    \/ T_play(t)
    \/ File_take(t)
    \/ File_open(t)
    \/ T_wake(t)
    \/ T_finish(t)
    \/ T_unseekable(t)

NextControl ==
    \/ Call_play
    \/ Call_pause
    \/ Call_stop
    \/ ControlCtlStep
    \/ \E t \in Threads : ControlThreadStep(t)
    \/ \E s \in Sinks : SinkDrain(s)

SpecControl == InitControl /\ [][NextControl]_vars

\* --------------------------------------------------------------- volume
\* As above, with at most one play(); the control thread issues up to
\* MaxCtlCmds of play, set_volume, mute and switch_device.
VolumeCtlStep ==
    \/ Op_idx_max
    \/ Op_sink_stop
    \/ Op_send_stopped
    \/ Op_queue_clear
    \/ Op_idx_zero
    \/ Op_sink_clear
    \/ Op_spawn_file
    \/ Op_read_volume
    \/ Op_new_sink
    \/ Op_swap_sink
    \/ Op_set_volume
    \/ Op_mute
    \/ Op_send_event

NextVolume ==
    \/ Sess_play
    \/ Call_set_volume
    \/ Call_mute
    \/ Call_switch_device
    \/ VolumeCtlStep
    \/ \E t \in Threads : ControlThreadStep(t)
    \/ \E s \in Sinks : SinkDrain(s)

SpecVolume == InitControl /\ [][NextVolume]_vars

\* ----------------------------------------------------- one session, skip
\* One play() starts the only session; skip_next() or skip_previous() may be
\* called once while it exists, and no other command follows.  Session
\* threads, the control thread and the audio output are scheduled fairly.
InitSkip ==
    /\ queue \in SeqsUpTo({i \in SoundItem : i.path_ok}, MaxInitQueue)
    /\ InitRest
    /\ CdIdle
    /\ RxConnected
    /\ disc = <<>>
    /\ UiIdle

Sess_skip_next == nthreads = 1 /\ ncmds = 1 /\ Call_skip_next

Sess_skip_previous == nthreads = 1 /\ ncmds = 1 /\ Call_skip_previous

SkipCtlStep ==
    \/ Op_spawn_file
    \/ Op_idx_sub2
    \/ Op_sink_stop

NextSkip ==
    \/ Sess_play
    \/ Sess_skip_next
    \/ Sess_skip_previous
    \/ SkipCtlStep
    \/ \E t \in Threads : ControlThreadStep(t)
    \/ \E s \in Sinks : SinkDrain(s)

SpecSkip ==
    /\ InitSkip
    /\ [][NextSkip]_vars
    /\ WF_vars(SkipCtlStep)
    /\ \A t \in Threads : WF_vars(ControlThreadStep(t))
    /\ \A s \in Sinks : WF_vars(SinkDrain(s))

\* --------------------------------------------------------------- cursor
\* Session threads against the operations that write the cursor or the
\* queue: up to MaxCmds of play, play_cd, stop, clear, skip_previous and
\* append, at any time once a first session has been spawned; a session and
\* the one that supersedes it, two session threads at most.
InitCursor ==
    /\ queue = <<[title |-> "a", path_ok |-> TRUE]>>
    /\ InitRest
    /\ CdIdle
    /\ RxConnected
    /\ disc = DiscOf(<<TRUE>>)
    /\ UiIdle

\* append() of one playable item.
Cursor_append == Call_append /\ ctl'.items = <<[title |-> "b", path_ok |-> TRUE]>>

CursorCommand ==
    /\ ncmds < MaxCmds
    /\ \/ nthreads <= 1 /\ Call_play
       \/ nthreads <= 1 /\ Call_play_cd
       \/ nthreads >= 1 /\ Call_stop
       \/ nthreads >= 1 /\ Call_clear
       \/ nthreads >= 1 /\ Call_skip_previous
       \/ nthreads >= 1 /\ Cursor_append

CursorCtlStep ==
    \/ Op_idx_max
    \/ Op_sink_stop
    \/ Op_send_stopped
    \/ Op_queue_clear
    \/ Op_idx_zero
    \/ Op_sink_clear
    \/ Op_append
    \/ Op_idx_sub2
    \/ Op_spawn_file
    \/ Op_spawn_cd

NextCursor ==
    \/ CursorCommand
    \/ CursorCtlStep
    \/ \E t \in Threads : SessionThreadStep(t)
    \/ \E s \in Sinks : SinkDrain(s)

SpecCursor == InitCursor /\ [][NextCursor]_vars

\* ----------------------------------------------------------- after stop
\* One stop(): before it at most one session, started by play() or by
\* play_cd(); after it play() and append(); neither clear() nor play_cd()
\* (nor skip_previous()) is called once stop() was.
Stop_once == stopCalls = 0 /\ Call_stop

AfterStopCommand ==
    \/ stopCalls = 0 /\ Sess_play
    \/ stopCalls = 0 /\ Sess_play_cd
    \/ Stop_once
    \/ stopCalls = 1 /\ Call_play
    \/ stopCalls = 1 /\ Cursor_append

AfterStopCtlStep ==
    \/ Op_idx_max
    \/ Op_sink_stop
    \/ Op_send_stopped
    \/ Op_queue_clear
    \/ Op_idx_zero
    \/ Op_sink_clear
    \/ Op_append
    \/ Op_spawn_file
    \/ Op_spawn_cd

NextAfterStop ==
    \/ AfterStopCommand
    \/ AfterStopCtlStep
    \/ \E t \in Threads : SessionThreadStep(t)
    \/ \E s \in Sinks : SinkDrain(s)

\* Up to MaxInitQueue playable items are queued and a disc of one audio
\* track is in the drive.
InitAfterStop ==
    /\ queue \in SeqsUpTo({[title |-> "a", path_ok |-> TRUE]}, MaxInitQueue)
    /\ InitRest
    /\ CdIdle
    /\ RxConnected
    /\ disc = DiscOf(<<TRUE>>)
    /\ UiIdle

SpecAfterStop == InitAfterStop /\ [][NextAfterStop]_vars

\* --------------------------------------------------------------- stream
\* One playable item is queued; play() is called as the first session at
\* most; the control thread issues up to MaxCtlCmds of play, stop, append
\* and play_stream, the tokio runtime runs
\* the play_stream task beside it.  Two sessions at most, one of them a
\* stream, and one stop(): a session is started while at most one session
\* thread exists or is about to.
StreamSessionsLeft == nthreads + Cardinality({i \in 1..Len(task) : TaskMaySpawn(i)}) <= 1

Stream_play == StreamSessionsLeft /\ Sess_play

Stream_play_stream == StreamSessionsLeft /\ task = <<>> /\ Call_play_stream

\* append() to the queue that play_stream has cleared.
Stream_append == queue = <<>> /\ Cursor_append

StreamCtlStep ==
    \/ Op_idx_max
    \/ Op_sink_stop
    \/ Op_send_stopped
    \/ Op_queue_clear
    \/ Op_idx_zero
    \/ Op_sink_clear
    \/ Op_append
    \/ Op_spawn_file
    \/ Op_spawn_task

StreamThreadStep(t) ==
    \/ ControlThreadStep(t)
    \/ Stream_open(t)
    \/ Stream_metadata(t)

NextStream ==
    \/ Stream_play
    \/ Stop_once
    \/ Stream_append
    \/ Stream_play_stream
    \/ StreamCtlStep
    \/ \E i \in Tasks : TaskStep(i)
    \/ \E t \in Threads : StreamThreadStep(t)
    \/ \E s \in Sinks : SinkDrain(s)

\* One playable item is queued.
InitStream ==
    /\ queue = <<[title |-> "a", path_ok |-> TRUE]>>
    /\ InitRest
    /\ CdIdle
    /\ RxConnected
    /\ disc = <<>>
    /\ UiIdle

SpecStream == InitStream /\ [][NextStream]_vars

\* ---------------------------------------------------------- queue edits
\* clear() and append() beside every kind of session: one playable item is
\* queued and a disc of one audio track is in the drive; the control thread
\* issues up to MaxCtlCmds of play, play_cd, play_stream, stop, clear and
\* append, the tokio runtime runs the play_stream task beside it.  One
\* session: a play command is called while no session thread exists or is
\* about to.
EditNoSession == nthreads + Cardinality({i \in 1..Len(task) : TaskMaySpawn(i)}) = 0

Edit_play == EditNoSession /\ Call_play

Edit_play_cd == EditNoSession /\ Call_play_cd

Edit_play_stream == EditNoSession /\ Call_play_stream

\* append() of item b, or of b and a.
Edit_append ==
    /\ Call_append
    /\ ctl'.items \in {<<[title |-> "b", path_ok |-> TRUE]>>,
                        <<[title |-> "b", path_ok |-> TRUE], [title |-> "a", path_ok |-> TRUE]>>}

EditCtlStep ==
    \/ Op_idx_max
    \/ Op_sink_stop
    \/ Op_send_stopped
    \/ Op_queue_clear
    \/ Op_idx_zero
    \/ Op_sink_clear
    \/ Op_append
    \/ Op_spawn_file
    \/ Op_spawn_cd
    \/ Op_spawn_task

EditThreadStep(t) ==
    \/ SessionThreadStep(t)
    \/ Stream_open(t)
    \/ Stream_metadata(t)

NextEdit ==
    \/ Edit_play
    \/ Edit_play_cd
    \/ Edit_play_stream
    \/ Call_stop
    \/ Call_clear
    \/ Edit_append
    \/ EditCtlStep
    \/ \E i \in Tasks : TaskStep(i)
    \/ \E t \in Threads : EditThreadStep(t)
    \/ \E s \in Sinks : SinkDrain(s)

SpecEdit == InitCursor /\ [][NextEdit]_vars

\* ---------------------------------------------- a session is superseded
\* Two play_cd() calls, the second while the first session exists.  The
\* operating system runs the two session threads in any order.
\* Homeplayer::play, CD page: play from the first track (main.rs:848-855).
Sup_play_cd ==
    /\ nthreads <= 1
    /\ Begin("play_cd", play_cd_ops, <<>>, disc, 0)
    /\ UNCHANGED <<stopCalls, stopSeen, volLog, skipSeen>>

SupCtlStep ==
    \/ Op_idx_max
    \/ Op_sink_stop
    \/ Op_send_stopped
    \/ Op_queue_clear
    \/ Op_idx_zero
    \/ Op_sink_clear
    \/ Op_spawn_cd

CdThreadStep(t) ==
    \/ T_begin(t)
    \/ T_seekable(t)
    \/ T_start_playing(t)
    \/ T_title(t)
    \/ T_play(t)
    \/ Cd_reset(t)
    \/ Cd_take(t)
    \/ Cd_open(t)
    \/ T_wake(t)
    \/ T_finish(t)
    \/ T_unseekable(t)

\* The first session's thread.
SupOldStep == CdThreadStep(1)

\* The second session's thread.
SupNewStep == CdThreadStep(2)

\* The discs of the supersede scenario: one or two audio tracks.
SupDiscs == {DiscOf(f) : f \in {<<TRUE>>, <<TRUE, TRUE>>}}

\* A disc of audio tracks is loaded.
InitSupersede ==
    /\ queue = <<>>
    /\ InitRest
    /\ CdIdle
    /\ RxConnected
    /\ disc \in SupDiscs
    /\ UiIdle

NextSupersede ==
    \/ Sup_play_cd
    \/ SupCtlStep
    \/ SupOldStep
    \/ SupNewStep
    \/ \E s \in Sinks : SinkDrain(s)

SpecSupersede ==
    /\ InitSupersede
    /\ [][NextSupersede]_vars
    /\ WF_vars(SupCtlStep)
    /\ WF_vars(SupOldStep)
    /\ WF_vars(SupNewStep)
    /\ \A s \in Sinks : WF_vars(SinkDrain(s))

\* ------------------------------------------------------------ eject_cd
\* Homeplayer::eject_cd: player.stop(), then cd_audio::eject_cd and the
\* update of the CD page's state.
eject_cd_ops == stop_ops \o <<"eject_cd">>

\* Mutant of EjectResult: a failed door unlock fails the eject.
EjectResult_UnlockFatal(open_ok, unlock_ok, eject_ok) ==
    IF open_ok /\ unlock_ok /\ eject_ok THEN "ok" ELSE "err"

\* cd_audio::eject_cd: open_cd_device(device)? ; CDROM_LOCKDOOR (a failure
\* is only logged); CDROMEJECT, whose failure is the error returned.
EjectResult(open_ok, unlock_ok, eject_ok) ==
    IF open_ok /\ eject_ok THEN "ok" ELSE "err"

Call_eject_cd ==
    /\ ncmds < MaxCmds
    /\ Begin("eject_cd", eject_cd_ops, <<>>, <<>>, 0)
    /\ UNCHANGED <<stopCalls, stopSeen, volLog, skipSeen>>

\* cd_audio::eject_cd and the match on its result: Ok clears the track list
\* and disc_present, Err changes only the status text.  The calls after a
\* failed open are not made.
Op_eject_cd ==
    /\ NextOp("eject_cd")
    /\ \E o \in BOOLEAN, u \in BOOLEAN, e \in BOOLEAN :
          LET ret == EjectResult(o, o /\ u, o /\ e) IN
          /\ eject' = [open_ok |-> o, unlock_ok |-> o /\ u, eject_ok |-> o /\ e,
                       ret |-> ret]
          /\ IF ret = "ok"
             THEN disc' = <<>> /\ disc_present' = FALSE
             ELSE UNCHANGED <<disc, disc_present>>
    /\ Advance
    /\ UNCHANGED <<cdVars, rxVars, volLog, skipSeen, lockVars, taskVars, fnVars, ui_toc_rx, cdPageVars,
                   queue, idx, curSink,
                   nsinks, paused, volume, mute_volume, sinkQ, stateChan, titleChan,
                   ncmds, nthreads, pc, kind, tsink, cur, ttracks, tstart,
                   superseded, stopSeen, openLog, stopCalls>>

\* The CD page with some disc listed, or none.
InitEject ==
    /\ queue = <<>>
    /\ InitRest
    /\ CdIdle
    /\ RxConnected
    /\ disc \in Discs
    /\ disc_present \in {disc # <<>>, TRUE}
    /\ ui_toc_rx = FALSE
    /\ CdPagesIdle
    /\ eject = NoEject
    /\ FnIdle

EjectCtlStep ==
    \/ Op_idx_max
    \/ Op_sink_stop
    \/ Op_send_stopped
    \/ Op_eject_cd

NextEject ==
    \/ Call_eject_cd
    \/ EjectCtlStep

SpecEject == InitEject /\ [][NextEject]_vars

\* ============================================================ Track Source
\* cd_audio.rs constants.
SECTOR_SIZE == 2352

SAMPLES_PER_SECTOR == SECTOR_SIZE \div 2

SECTORS_PER_READ == 25

\* i16::MAX, the divisor of the sample conversion.
I16_MAX == 32767

\* Bounds of the tracks read: up to MaxBatches full reads plus 0 or 1 sector,
\* and up to MaxEosCalls calls of next() that return None.
MaxBatches == 2

MaxEosCalls == 2

SectorCounts == {b * SECTORS_PER_READ + e : b \in 0..MaxBatches, e \in {0, 1}}

StartLbas == {0, 2}

TrackInputs ==
    {[start_lba |-> s, end_lba |-> s + n, is_audio |-> a] :
        s \in StartLbas, n \in SectorCounts, a \in BOOLEAN}

\* Mutant of Min: the left operand, whatever the right one is.
Min_Left(a, b) == a

\* i32::min.
Min(a, b) == IF a <= b THEN a ELSE b

\* The disc: the byte at offset k of sector lba, as CDROMREADAUDIO delivers it.
DiscByte(lba, k) == (lba * 37 + k * 11 + (k \div 256) + 5) % 256

\* Mutant of I16FromLe: the bytes are taken in big-endian order.
I16FromLe_BigEndian(b0, b1) ==
    LET u == b0 * 256 + b1 IN IF u >= 32768 THEN u - 65536 ELSE u

\* i16::from_le_bytes([b0, b1]).
I16FromLe(b0, b1) ==
    LET u == b0 + 256 * b1 IN IF u >= 32768 THEN u - 65536 ELSE u

\* raw_buf[j] after a successful read of sectors lba.. : sectors are laid out
\* one after the other, SECTOR_SIZE bytes each.
RawByte(lba, j) == DiscByte(lba + (j \div SECTOR_SIZE), j % SECTOR_SIZE)

\* fill_buffer, Ok arm: byte_count / 2 samples, sample i decoded from the
\* i-th pair of bytes of raw_buf.  The buffer is kept as its length and the
\* read it came from; BufferAt gives its elements.
DecodedBuffer(lba, byte_count) == [len |-> byte_count \div 2, ok |-> TRUE, lba |-> lba]

\* Mutant of SilenceBuffer: one zero per sector instead of one per sample.
SilenceBuffer_PerSector(lba, sectors_to_read) ==
    [len |-> sectors_to_read, ok |-> FALSE, lba |-> lba]

\* fill_buffer, Err arm: sectors_to_read * SAMPLES_PER_SECTOR zero samples.
SilenceBuffer(lba, sectors_to_read) ==
    [len |-> sectors_to_read * SAMPLES_PER_SECTOR, ok |-> FALSE, lba |-> lba]

BufferAt(b, i) ==
    IF b.ok THEN I16FromLe(RawByte(b.lba, 2 * i), RawByte(b.lba, 2 * i + 1)) ELSE 0

\* Mutant of fill_buffer: a failed read leaves the sector cursor where it
\* was, so the same range is asked for again.
fill_buffer_RetryOnError(ok) ==
    IF current_lba >= end_lba
    THEN [filled |-> FALSE, lba |-> current_lba, buf |-> buffer,
          pos |-> buffer_pos, reads |-> reads]
    ELSE LET remaining_sectors == end_lba - current_lba
             sectors_to_read == Min(remaining_sectors, SECTORS_PER_READ)
             byte_count == sectors_to_read * SECTOR_SIZE
         IN [filled |-> TRUE,
             lba |-> IF ok THEN current_lba + sectors_to_read ELSE current_lba,
             buf |-> IF ok THEN DecodedBuffer(current_lba, byte_count)
                     ELSE SilenceBuffer(current_lba, sectors_to_read),
             pos |-> 0,
             reads |-> Append(reads, [lba |-> current_lba,
                                      nframes |-> sectors_to_read, ok |-> ok])]

\* fill_buffer with the ioctl's outcome `ok`: what it returns and what it
\* leaves in current_lba, buffer, buffer_pos (and the request it made).
fill_buffer(ok) ==
    IF current_lba >= end_lba
    THEN [filled |-> FALSE, lba |-> current_lba, buf |-> buffer,
          pos |-> buffer_pos, reads |-> reads]
    ELSE LET remaining_sectors == end_lba - current_lba
             sectors_to_read == Min(remaining_sectors, SECTORS_PER_READ)
             byte_count == sectors_to_read * SECTOR_SIZE
         IN [filled |-> TRUE,
             lba |-> current_lba + sectors_to_read,
             buf |-> IF ok THEN DecodedBuffer(current_lba, byte_count)
                     ELSE SilenceBuffer(current_lba, sectors_to_read),
             pos |-> 0,
             reads |-> Append(reads, [lba |-> current_lba,
                                      nframes |-> sectors_to_read, ok |-> ok])]

\* Mutant of OpenTrackResult: the device is opened before the track kind is
\* looked at.
OpenTrackResult_OpensFirst(track, dev_ok) ==
    [ret |-> IF track.is_audio /\ dev_ok THEN "open" ELSE "err", opens |-> 1]

\* open_track: a data track is refused before anything is opened; otherwise
\* CdTrackSource::new opens the device, which may fail.
OpenTrackResult(track, dev_ok) ==
    IF ~track.is_audio THEN [ret |-> "err", opens |-> 0]
    ELSE IF dev_ok THEN [ret |-> "open", opens |-> 1]
    ELSE [ret |-> "err", opens |-> 1]

\* open_track, CdTrackSource::new included.
open_track ==
    /\ source = "none"
    /\ \E dev_ok \in BOOLEAN :
          LET r == OpenTrackResult(src_track, dev_ok)
          IN /\ source' = r.ret
             /\ dev_opens' = dev_opens + r.opens
             /\ IF r.ret = "err"
                THEN UNCHANGED <<current_lba, end_lba, total_samples>>
                ELSE /\ current_lba' = src_track.start_lba
                     /\ end_lba' = src_track.end_lba
                     /\ total_samples' =
                           (src_track.end_lba - src_track.start_lba) * SAMPLES_PER_SECTOR
    /\ buffer' = NoBuffer
    /\ buffer_pos' = 0
    /\ samples_yielded' = 0
    /\ UNCHANGED <<src_track, reads, n_some, n_none, last_ret>>
    /\ UNCHANGED <<notCdVars, tocVars>>

ReturnNone ==
    /\ n_none' = n_none + 1
    /\ last_ret' = NoRet
    /\ UNCHANGED <<buffer_pos, samples_yielded, n_some>>

\* Iterator::next for CdTrackSource, fill_buffer and the ioctl included.
Iterator_next ==
    /\ source = "open"
    /\ n_none < MaxEosCalls
    /\ IF samples_yielded >= total_samples
       THEN /\ ReturnNone
            /\ UNCHANGED <<current_lba, buffer, reads>>
       ELSE \E ok \in (IF buffer_pos >= buffer.len /\ current_lba < end_lba
                       THEN BOOLEAN ELSE {TRUE}) :
              LET f == IF buffer_pos >= buffer.len
                       THEN fill_buffer(ok)
                       ELSE [filled |-> TRUE, lba |-> current_lba, buf |-> buffer,
                             pos |-> buffer_pos, reads |-> reads]
              IN /\ current_lba' = f.lba
                 /\ buffer' = f.buf
                 /\ reads' = f.reads
                 /\ IF ~f.filled
                    THEN ReturnNone
                    ELSE /\ buffer_pos' = f.pos + 1
                         /\ samples_yielded' = samples_yielded + 1
                         /\ n_some' = n_some + 1
                         /\ last_ret' = [some |-> TRUE, num |-> BufferAt(f.buf, f.pos),
                                         den |-> I16_MAX]
                         /\ UNCHANGED n_none
    /\ UNCHANGED <<src_track, source, end_lba, total_samples, dev_opens>>
    /\ UNCHANGED <<notCdVars, tocVars>>

EngineIdle == queue = <<>> /\ InitRest /\ disc = <<>> /\ RxConnected /\ UiIdle

InitTrack ==
    /\ EngineIdle
    /\ src_track \in TrackInputs
    /\ TrackIdle
    /\ toc_pc = "idle"
    /\ TocFresh

NextTrack ==
    \/ open_track
    \/ Iterator_next

SpecTrack == InitTrack /\ [][NextTrack]_vars

\* --------------------------------------------------- sample conversion
Bytes == 0..255

\* CdTrackSource::next: sample as f32 / i16::MAX as f32, kept as the exact
\* quotient (both operands are exact in f32, and rounding the quotient to
\* f32 is monotone and keeps -1.0 and 1.0 fixed).
SampleToF32(sample) == [num |-> sample, den |-> I16_MAX]

\* Two bytes of a sector as the drive may deliver them.
InitSample ==
    /\ queue = <<>>
    /\ InitRest
    /\ CdIdle
    /\ RxConnected
    /\ disc = <<>>
    /\ disc_present = FALSE
    /\ ui_toc_rx = FALSE
    /\ CdPagesIdle
    /\ eject = NoEject
    /\ fn_in \in Bytes \X Bytes
    /\ fn_out = <<>>

\* The pair is decoded (fill_buffer) and yielded (next).
Sample_next ==
    /\ fn_out = <<>>
    /\ fn_out' = <<SampleToF32(I16FromLe(fn_in[1], fn_in[2]))>>
    /\ UNCHANGED <<engineVars, cdVars, rxVars, volLog, skipSeen, lockVars, uiVars, taskVars, fn_in>>

SpecSample == InitSample /\ [][Sample_next]_vars

\* ------------------------------------------------------ stream metadata
\* Stream titles are sequences of characters: the two separators, a blank
\* and a letter.
Chars == {"-", "'", " ", "x"}

MaxTitleLen == 3

Icons == {"icon1", "icon2"}

\* The metadata the reader hands to the callback: Ok with a stream title
\* ("ok"), Ok without one ("none"), or Err ("err").
MetaInputs ==
    [meta : {"ok", "none", "err"}, s : SeqsUpTo(Chars, MaxTitleLen), icon : Icons]

InitMeta ==
    /\ queue = <<>>
    /\ InitRest
    /\ CdIdle
    /\ RxConnected
    /\ disc = <<>>
    /\ disc_present = FALSE
    /\ ui_toc_rx = FALSE
    /\ CdPagesIdle
    /\ eject = NoEject
    /\ fn_in \in {i \in MetaInputs : i.meta = "ok" \/ i.s = <<>>}
    /\ fn_out = <<>>

Meta_callback ==
    /\ fn_out = <<>>
    /\ fn_out' = <<MetadataCallback(fn_in.meta, fn_in.s, fn_in.icon)>>
    /\ UNCHANGED <<engineVars, cdVars, rxVars, volLog, skipSeen, lockVars, uiVars, taskVars, fn_in>>

SpecMeta == InitMeta /\ [][Meta_callback]_vars

\* ---------------------------------------------------------- album cover
\* A path is the sequence of the words of its text; "bad" stands for bytes
\* that are not UTF-8, for which Path::to_str is None.
PathWords == {"cover", "front", "x", "bad"}

MaxPaths == 3

\* Paths of one word, and of one word followed by "x".
PathBufs == {<<w>> : w \in PathWords} \cup {<<w, "x">> : w \in PathWords}

NO_IMAGE == <<"images/no_image.jpg">>

\* Path::to_str is Some.
to_str_ok(path) == \A i \in 1..Len(path) : path[i] # "bad"

\* str::contains.
contains(path, word) == \E i \in 1..Len(path) : path[i] = word

\* get_cover, one turn of the loop over the paths.
CoverStep(cover, path) ==
    IF contains(path, "cover") \/ contains(path, "front") THEN path ELSE cover

RECURSIVE CoverLoop(_, _, _)
CoverLoop(paths, i, cover) ==
    IF i > Len(paths) THEN [ret |-> "ok", path |-> cover]
    ELSE IF ~to_str_ok(paths[i]) THEN [ret |-> "panic", path |-> <<>>]
    ELSE CoverLoop(paths, i + 1, CoverStep(cover, paths[i]))

\* MusicStore::get_cover; to_str().unwrap() panics on a path that is not
\* UTF-8.
get_cover(paths) ==
    IF Len(paths) > 1 THEN CoverLoop(paths, 1, paths[1])
    ELSE IF Len(paths) = 1 THEN [ret |-> "ok", path |-> paths[1]]
    ELSE [ret |-> "ok", path |-> NO_IMAGE]

InitCover ==
    /\ queue = <<>>
    /\ InitRest
    /\ CdIdle
    /\ RxConnected
    /\ disc = <<>>
    /\ disc_present = FALSE
    /\ ui_toc_rx = FALSE
    /\ CdPagesIdle
    /\ eject = NoEject
    /\ fn_in \in SeqsUpTo(PathBufs, MaxPaths)
    /\ fn_out = <<>>

Cover_get ==
    /\ fn_out = <<>>
    /\ fn_out' = <<get_cover(fn_in)>>
    /\ UNCHANGED <<engineVars, cdVars, rxVars, volLog, skipSeen, lockVars, uiVars, taskVars, fn_in>>

SpecCover == InitCover /\ [][Cover_get]_vars

\* ============================================================= read_cd_toc
CD_FRAMES_PER_SECOND == 75

\* Bounds of the drive's answers: track numbers up to MaxLastTrack, addresses
\* in -1..MaxLba.
MaxLastTrack == 3

MaxLba == 2

LbaValues == (-1)..MaxLba

FirstTracks == {1, 2}

\* cdte_adr_ctrl bytes a drive reports: ADR 1 with CTRL 0 (audio), CTRL 2
\* (audio, copy permitted) and CTRL 4 (data).
AdrCtrls == {1, 33, 65}

\* Mutant of IsAudioCtrl: the control nibble is taken from the low half.
IsAudioCtrl_LowNibble(adr_ctrl) ==
    LET ctrl == adr_ctrl % 16 IN (ctrl \div 4) % 2 = 0

\* (cdte_adr_ctrl >> 4) & 0x0F, then ctrl & 0x04 == 0.
IsAudioCtrl(adr_ctrl) ==
    LET ctrl == (adr_ctrl \div 16) % 16 IN (ctrl \div 4) % 2 = 0

\* Any cdte_adr_ctrl byte a TOC entry may carry.
InitCtrl ==
    /\ queue = <<>>
    /\ InitRest
    /\ CdIdle
    /\ RxConnected
    /\ disc = <<>>
    /\ disc_present = FALSE
    /\ ui_toc_rx = FALSE
    /\ CdPagesIdle
    /\ eject = NoEject
    /\ fn_in \in {<<b>> : b \in Bytes}
    /\ fn_out = <<>>

\* read_cd_toc classifies the entry.
Ctrl_classify ==
    /\ fn_out = <<>>
    /\ fn_out' = <<IsAudioCtrl(fn_in[1])>>
    /\ UNCHANGED <<engineVars, cdVars, rxVars, volLog, skipSeen, lockVars, uiVars, taskVars, fn_in>>

SpecCtrl == InitCtrl /\ [][Ctrl_classify]_vars

\* Mutant of EndLba: every track ends at the lead-out.
EndLba_AlwaysLeadout(es, i, leadout) == leadout

\* Step 3 of read_cd_toc: a track ends where the next one starts, the last
\* one at the lead-out.
EndLba(es, i, leadout) == IF i + 1 <= Len(es) THEN es[i + 1].start_lba ELSE leadout

\* CdTrackInfo::sector_count.
sector_count(t) == t.end_lba - t.start_lba

\* The CdTrackInfo built for entry i; the duration is sector_count / 75 s.
TrackInfoOf(es, i, leadout) ==
    LET e == EndLba(es, i, leadout)
    IN [number |-> es[i].number,
        start_lba |-> es[i].start_lba,
        end_lba |-> e,
        duration |-> [num |-> e - es[i].start_lba, den |-> CD_FRAMES_PER_SECOND],
        is_audio |-> es[i].is_audio]

TocUnchanged == UNCHANGED <<notCdVars, trackVars>>

\* open_cd_device(device)?
Toc_open ==
    /\ toc_pc = "open"
    /\ \E ok \in BOOLEAN : toc_pc' = IF ok THEN "header" ELSE "err"
    /\ UNCHANGED <<first_track, last_track, entries, leadout_lba, cd_tracks>>
    /\ TocUnchanged

\* CDROMREADTOCHDR: first and last track number, or an error.
Toc_header ==
    /\ toc_pc = "header"
    /\ \/ /\ toc_pc' = "err"
          /\ UNCHANGED <<first_track, last_track>>
       \/ \E f \in FirstTracks, l \in 0..MaxLastTrack :
             /\ first_track' = f
             /\ last_track' = l
             /\ toc_pc' = "entries"
    /\ UNCHANGED <<entries, leadout_lba, cd_tracks>>
    /\ TocUnchanged

\* One iteration of `for track_num in first_track..=last_track`:
\* read_toc_entry(fd, track_num)? and the push of the RawEntry; after the
\* last track the loop is left.
Toc_entry ==
    /\ toc_pc = "entries"
    /\ LET track_num == first_track + Len(entries)
       IN IF track_num > last_track
          THEN /\ toc_pc' = "leadout"
               /\ UNCHANGED entries
          ELSE \/ /\ toc_pc' = "err"
                  /\ UNCHANGED entries
               \/ \E lba \in LbaValues, adr_ctrl \in AdrCtrls :
                     /\ entries' = Append(entries,
                                      [number |-> track_num, start_lba |-> lba,
                                       is_audio |-> IsAudioCtrl(adr_ctrl)])
                     /\ UNCHANGED toc_pc
    /\ UNCHANGED <<first_track, last_track, leadout_lba, cd_tracks>>
    /\ TocUnchanged

\* read_toc_entry(fd, CDROM_LEADOUT)? and step 3: the CdTrackInfo of every
\* entry.  Duration::from_secs_f64 panics on a negative number of seconds.
Toc_leadout ==
    /\ toc_pc = "leadout"
    /\ \/ /\ toc_pc' = "err"
          /\ UNCHANGED <<leadout_lba, cd_tracks>>
       \/ \E lba \in LbaValues :
             LET built == [i \in 1..Len(entries) |-> TrackInfoOf(entries, i, lba)]
             IN /\ leadout_lba' = lba
                /\ IF \E i \in 1..Len(built) : built[i].duration.num < 0
                   THEN /\ toc_pc' = "panic"
                        /\ UNCHANGED cd_tracks
                   ELSE /\ toc_pc' = "ok"
                        /\ cd_tracks' = built
    /\ UNCHANGED <<first_track, last_track, entries>>
    /\ TocUnchanged

\* Mutant of TocDrainPresent: the disc stays marked present.
TocDrainPresent_Always(result) == TRUE

\* drain_channels: disc_present after the result of a TOC read arrived.
TocDrainPresent(result) == result = "ok"

\* Homeplayer::load_cd_toc: clear the listed tracks, spawn the thread that
\* runs read_cd_toc and keep the receiver of its result.
Ui_load_cd_toc ==
    /\ toc_pc = "idle"
    /\ ~ui_toc_rx
    /\ toc_pc' = "open"
    /\ disc' = <<>>
    /\ ui_toc_rx' = TRUE
    /\ UNCHANGED <<first_track, last_track, entries, leadout_lba, cd_tracks>>
    /\ UNCHANGED <<trackVars, rxVars, volLog, skipSeen, lockVars, taskVars, fnVars, disc_present, eject,
                   cdPageVars,
                   queue, idx, curSink, nsinks, paused, volume, mute_volume, sinkQ,
                   stateChan, titleChan, ctl, ncmds, nthreads, pc, kind, tsink, cur,
                   ttracks, tstart, superseded, stopSeen, openLog, stopCalls>>

\* drain_channels: the result of the TOC read is received; Ok lists the
\* tracks and marks the disc present, Err clears both.  (A thread that
\* panicked sends nothing.)
Ui_drain_toc ==
    /\ ui_toc_rx
    /\ toc_pc \in {"ok", "err"}
    /\ ui_toc_rx' = FALSE
    /\ disc_present' = TocDrainPresent(toc_pc)
    /\ disc' = IF toc_pc = "ok" THEN cd_tracks ELSE <<>>
    /\ UNCHANGED <<cdVars, rxVars, volLog, skipSeen, lockVars, taskVars, fnVars, eject, cdPageVars,
                   queue, idx, curSink, nsinks, paused, volume, mute_volume, sinkQ,
                   stateChan, titleChan, ctl, ncmds, nthreads, pc, kind, tsink, cur,
                   ttracks, tstart, superseded, stopSeen, openLog, stopCalls>>

\* The CD page with some disc listed, or none; one TOC read is made.
InitToc ==
    /\ queue = <<>>
    /\ InitRest
    /\ RxConnected
    /\ disc \in Discs
    /\ disc_present \in {disc # <<>>, TRUE}
    /\ ui_toc_rx = FALSE
    /\ CdPagesIdle
    /\ eject = NoEject
    /\ FnIdle
    /\ CdIdle

NextToc ==
    \/ Ui_load_cd_toc
    \/ Toc_open
    \/ Toc_header
    \/ Toc_entry
    \/ Toc_leadout
    \/ Ui_drain_toc

SpecToc == InitToc /\ [][NextToc]_vars

\* ------------------------------------------------------------- CD pages
\* The CD pages of the UI with several CD sources: every Refresh spawns a
\* thread that runs read_cd_toc and sends the result on a channel of its
\* own; Homeplayer keeps one (source_idx, receiver) pair.  The result of a
\* read is kept as what the page shows of it: Ok with its tracks, or Err.
TocTrackLists ==
    {<<[number |-> 1, is_audio |-> TRUE]>>,
     <<[number |-> 1, is_audio |-> TRUE], [number |-> 2, is_audio |-> FALSE]>>}

TocResults ==
    {[ok |-> TRUE, tracks |-> t] : t \in TocTrackLists}
        \cup {[ok |-> FALSE, tracks |-> <<>>]}

NoTocResult == [ok |-> FALSE, tracks |-> <<>>]

\* CdInfo::audio_tracks().len().
AudioCount(tracks) == Cardinality({i \in 1..Len(tracks) : tracks[i].is_audio})

\* load_cd_toc, last statement: self.cd_toc_rx = Some((source_idx, toc_rx)),
\* whatever was stored before.
StoreTocRx(old, source_idx, chan) ==
    [some |-> TRUE, source_idx |-> source_idx, chan |-> chan]

\* paint_cd_source pushes LoadCdToc from the Refresh button of a CD source's
\* page, which is shown only while the source is not loading (the UI thread
\* being in no other handler); Homeplayer::load_cd_toc then marks
\* the source loading, clears its tracks, spawns the read and stores the
\* new receiver.  The receiver stored before is dropped.
load_cd_toc(source_idx) ==
    /\ Idle
    /\ source_idx \in DOMAIN cd_source_states
    /\ ~cd_source_states[source_idx].loading
    /\ Len(toc_chans) < MaxTocReqs
    /\ cd_source_states' =
          [cd_source_states EXCEPT
              ![source_idx].loading = TRUE,
              ![source_idx].status = [text |-> "Reading disc", audio |-> 0],
              ![source_idx].tracks = <<>>]
    /\ cd_toc_rx' = StoreTocRx(cd_toc_rx, source_idx, Len(toc_chans) + 1)
    /\ toc_chans' =
          LET dropped == IF cd_toc_rx.some
                         THEN [toc_chans EXCEPT ![cd_toc_rx.chan].rx_alive = FALSE]
                         ELSE toc_chans
          IN Append(dropped, [source_idx |-> source_idx, state |-> "running",
                              result |-> NoTocResult, rx_alive |-> TRUE])
    /\ UNCHANGED <<engineVars, cdVars, rxVars, volLog, skipSeen, lockVars, taskVars, fnVars,
                   disc_present, ui_toc_rx, eject>>

\* The spawned thread: read_cd_toc returns Ok or Err and the result is sent
\* (`let _ = toc_tx.send(result)`: a dropped receiver is not an error), or
\* read_cd_toc panics and the sender is dropped with nothing sent.
TocThread_run(c) ==
    /\ c \in 1..Len(toc_chans)
    /\ toc_chans[c].state = "running"
    /\ \/ \E result \in TocResults :
             toc_chans' = [toc_chans EXCEPT ![c].state = "sent", ![c].result = result]
       \/ toc_chans' = [toc_chans EXCEPT ![c].state = "panicked"]
    /\ UNCHANGED <<engineVars, cdVars, rxVars, volLog, skipSeen, lockVars, taskVars, fnVars,
                   disc_present, ui_toc_rx, eject, cd_source_states, cd_toc_rx>>

\* drain_channels, TOC part, when try_recv on the stored receiver returns a
\* result: the receiver is forgotten and the state of the source it was
\* stored with, if the configuration still has that CD source, is set from
\* the result.  (When try_recv returns Err, nothing changes.)
drain_cd_toc ==
    /\ Idle
    /\ cd_toc_rx.some
    /\ toc_chans[cd_toc_rx.chan].state = "sent"
    /\ LET result == toc_chans[cd_toc_rx.chan].result
           src == cd_toc_rx.source_idx
       IN cd_source_states' =
             IF src \notin DOMAIN cd_source_states THEN cd_source_states ELSE
             [cd_source_states EXCEPT
                 ![src].loading = FALSE,
                 ![src].disc_present = result.ok,
                 ![src].status =
                     IF result.ok
                     THEN [text |-> "audio tracks found", audio |-> AudioCount(result.tracks)]
                     ELSE [text |-> "Failed to read disc", audio |-> 0],
                 ![src].tracks = IF result.ok THEN result.tracks ELSE <<>>]
    /\ cd_toc_rx' = NoTocRx
    /\ toc_chans' = [toc_chans EXCEPT ![cd_toc_rx.chan].state = "received"]
    /\ UNCHANGED <<engineVars, cdVars, rxVars, volLog, skipSeen, lockVars, taskVars, fnVars,
                   disc_present, ui_toc_rx, eject>>

\* Homeplayer::apply_config, after a configuration was saved:
\* player.switch_device(..), then the pages and the source states are
\* rebuilt.
apply_config_ops == switch_device_ops \o <<"rebuild_cd_states">>

\* SaveConfig: the configuration is replaced and apply_config runs.
Call_apply_config ==
    /\ nsinks < MaxSinks
    /\ Begin("apply_config", apply_config_ops, <<>>, <<>>, 0)
    /\ LogVolume("switch_device")
    /\ UNCHANGED <<stopCalls, stopSeen, skipSeen>>

\* apply_config, step 5: a fresh CdSourceState for every CD source of the
\* new configuration (cds: their indexes); cd_toc_rx is left as it is.
Op_rebuild_cd_states ==
    /\ NextOp("rebuild_cd_states")
    /\ \E cds \in SUBSET CdSources :
          cd_source_states' = [s \in cds |-> CdSourceState_new]
    /\ Advance
    /\ UNCHANGED <<cdVars, rxVars, volLog, skipSeen, lockVars, taskVars, fnVars,
                   disc_present, ui_toc_rx, eject, cd_toc_rx, toc_chans,
                   queue, idx, curSink, nsinks, paused, volume, mute_volume, sinkQ,
                   stateChan, titleChan, ncmds, nthreads, pc, kind, tsink, cur,
                   ttracks, tstart, superseded, stopSeen, disc, openLog, stopCalls>>

ApplyConfigStep ==
    \/ Op_read_volume
    \/ Op_idx_max
    \/ Op_sink_stop
    \/ Op_send_stopped
    \/ Op_queue_clear
    \/ Op_idx_zero
    \/ Op_sink_clear
    \/ Op_new_sink
    \/ Op_swap_sink
    \/ Op_rebuild_cd_states

InitCdPages == EngineIdle /\ CdIdle

NextCdPages ==
    \/ \E source_idx \in CdSources : load_cd_toc(source_idx)
    \/ \E c \in 1..MaxTocReqs : TocThread_run(c)
    \/ drain_cd_toc
    \/ Call_apply_config
    \/ ApplyConfigStep

\* drain_channels runs on every frame, every spawned thread runs, and the
\* UI thread goes on in the handler it is in.
SpecCdPages ==
    /\ InitCdPages
    /\ [][NextCdPages]_vars
    /\ WF_vars(drain_cd_toc)
    /\ WF_vars(ApplyConfigStep)
    /\ \A c \in 1..MaxTocReqs : WF_vars(TocThread_run(c))

\* ================================================================== locks
\* The same operations seen as the lock steps they make: which Mutex is
\* locked where, how long each guard lives, and where a thread blocks in
\* sleep_until_end.  A step is [op, on]: "acq"/"rel" of a lock, "call" of a
\* sink method or channel send (which takes no engine lock), "wait" for
\* sleep_until_end, "spawn" of a session thread.
MaxLockCmds == 2

MaxLoops == 1

Acq(l) == [op |-> "acq", on |-> l]

Rel(l) == [op |-> "rel", on |-> l]

DoCall(what) == [op |-> "call", on |-> what]

SleepUntilEnd == [op |-> "wait", on |-> "sink"]

SpawnThread(k) == [op |-> "spawn", on |-> k]

\* tokio_rt.spawn of the task that runs RodioPlayer::play_stream.
SpawnTask == [op |-> "spawn", on |-> "task"]

\* current_sink(): self.sink.lock().unwrap().clone(), guard dropped at once.
current_sink_locks == <<Acq("sink"), Rel("sink")>>

\* stop(): idx guard dropped before current_sink(); sink.stop(); send.
stop_locks ==
    <<Acq("cursor"), Rel("cursor")>> \o current_sink_locks
        \o <<DoCall("sink.stop"), DoCall("send")>>

\* Mutant of clear_locks: the cursor guard is kept while the queue is locked.
clear_locks_Nested ==
    <<Acq("cursor"), Acq("queue"), Rel("queue"), Rel("cursor")>> \o current_sink_locks
        \o <<DoCall("sink.clear")>>

\* clear(): three statements, each guard a temporary of its statement.
clear_locks ==
    <<Acq("queue"), Rel("queue"), Acq("cursor"), Rel("cursor")>> \o current_sink_locks
        \o <<DoCall("sink.clear")>>

pause_locks == current_sink_locks \o <<DoCall("sink.pause"), DoCall("send")>>

set_volume_locks == current_sink_locks \o <<DoCall("sink.set_volume")>>

\* mute(): current_sink() first, then the mute_volume guard until return.
mute_locks ==
    current_sink_locks
        \o <<Acq("mute"), DoCall("sink.set_volume"), DoCall("send"), Rel("mute")>>

skip_next_locks == current_sink_locks \o <<DoCall("sink.stop")>>

skip_previous_locks ==
    <<Acq("cursor"), Rel("cursor")>> \o current_sink_locks \o <<DoCall("sink.stop")>>

append_locks == <<Acq("queue"), Rel("queue")>>

\* switch_device(): read the volume under the sink guard; stop(); clear();
\* open the new stream and sink; swap sink, then stream.
switch_device_locks ==
    <<Acq("sink"), DoCall("sink.volume"), Rel("sink")>> \o stop_locks \o clear_locks
        \o <<DoCall("open_output_stream"), DoCall("Sink::connect_new"),
             DoCall("sink.set_volume"), Acq("sink"), Rel("sink"),
             Acq("stream"), Rel("stream")>>

play_locks == current_sink_locks \o <<SpawnThread("file")>>

play_cd_locks == stop_locks \o clear_locks \o current_sink_locks \o <<SpawnThread("cd")>>

\* RodioPlayer::play_stream, run by the task: the setup across its two
\* awaits takes no engine lock and either part may fail;
\* start_stream_playback(): stop(); current_sink(); spawn.
play_stream_locks ==
    <<DoCall("stream_connect"), DoCall("stream_buffer")>>
        \o stop_locks \o current_sink_locks \o <<SpawnThread("stream")>>

\* Homeplayer::play_stream, on the control thread: stop(); clear(); spawn
\* the task.
ui_play_stream_locks == stop_locks \o clear_locks \o <<SpawnTask>>

LockCommands ==
    {stop_locks, clear_locks, pause_locks, set_volume_locks, mute_locks,
     skip_next_locks, skip_previous_locks, append_locks, switch_device_locks,
     play_locks, play_cd_locks, ui_play_stream_locks}

\* Mutant of file_take_locks: the queue guard is kept across the wait.
file_take_locks_HeldAcrossWait == <<Acq("queue"), Acq("cursor"), Rel("cursor")>>

\* start_playback_queue, the block that takes the next item: queue guard,
\* then cursor guard, dropped in reverse order at the end of the block.
file_take_locks == <<Acq("queue"), Acq("cursor"), Rel("cursor"), Rel("queue")>>

\* One item of a file session: title, File::open and decoder build (`?`),
\* append, play, sleep_until_end.
file_play_locks ==
    <<DoCall("send"), DoCall("File::open"), DoCall("sink.append"), DoCall("sink.play"),
      SleepUntilEnd>>

\* One track of a CD session: title, open_track (on Err the loop goes on),
\* append, play, sleep_until_end.
cd_play_locks ==
    <<DoCall("send"), DoCall("open_track"), DoCall("sink.append"), DoCall("sink.play"),
      SleepUntilEnd>>

\* The sends before a file or CD thread's loop, and after it, each `send(..)?`.
begin_sends == <<DoCall("send?"), DoCall("send?"), DoCall("send?")>>

finish_sends == <<DoCall("send?"), DoCall("send?")>>

cd_take_locks == <<Acq("cursor"), Rel("cursor")>>

RECURSIVE Repeat(_, _)
Repeat(steps, n) == IF n = 0 THEN <<>> ELSE steps \o Repeat(steps, n - 1)

\* The lock steps of a session thread that plays n items.
ThreadLocks(k, n) ==
    CASE k = "file" ->
            begin_sends \o Repeat(file_take_locks \o file_play_locks, n)
                \o file_take_locks \o finish_sends
      [] k = "cd" ->
            begin_sends \o cd_take_locks
                \o Repeat(cd_take_locks \o cd_play_locks, n)
                \o cd_take_locks \o finish_sends
      [] OTHER ->
            <<DoCall("send"), DoCall("send"), DoCall("Decoder::new"),
              DoCall("sink.append"), DoCall("sink.play"), SleepUntilEnd, DoCall("send")>>

Spawns(prog) == \E i \in 1..Len(prog) : prog[i].op = "spawn"

NextStep(p, o) == lprog[p] # <<>> /\ Head(lprog[p]).op = o

StepDone(p) == lprog' = [lprog EXCEPT ![p] = Tail(@)]

LockUnchanged == UNCHANGED <<engineVars, cdVars, rxVars, volLog, skipSeen, uiVars, taskVars, fnVars>>

\* Session threads that commands in progress will still spawn: one for the
\* control thread's command and one for the task, if their steps to come
\* hold a spawn.
PendingSpawns == Cardinality({p \in {0, Worker} : Spawns(lprog[p])})

FreeThreads == Cardinality({p \in Threads : lprog[p] = <<>>})

\* The control thread starts an operation (while a task may be running).
L_call ==
    /\ lprog[0] = <<>>
    /\ lcmds < MaxLockCmds
    /\ \E prog \in LockCommands :
          /\ Spawns(prog) => FreeThreads > PendingSpawns
          /\ prog = ui_play_stream_locks => lprog[Worker] = <<>>
          /\ lprog' = [lprog EXCEPT ![0] = prog]
    /\ lcmds' = lcmds + 1
    /\ UNCHANGED holder
    /\ LockUnchanged

\* Mutex::lock: blocks while another guard exists (and for ever if the
\* caller itself holds the guard).
L_acquire(p) ==
    /\ NextStep(p, "acq")
    /\ holder[Head(lprog[p]).on] = Free
    /\ holder' = [holder EXCEPT ![Head(lprog[p]).on] = p]
    /\ StepDone(p)
    /\ UNCHANGED lcmds
    /\ LockUnchanged

\* The guard is dropped.
L_release(p) ==
    /\ NextStep(p, "rel")
    /\ holder' = [holder EXCEPT ![Head(lprog[p]).on] = Free]
    /\ StepDone(p)
    /\ UNCHANGED lcmds
    /\ LockUnchanged

\* A sink method, a channel send or another call that takes no engine
\* lock; a `send(..)?` succeeds while the Receiver exists.
L_do(p) ==
    /\ NextStep(p, "call")
    /\ Head(lprog[p]).on = "send?" => state_rx
    /\ StepDone(p)
    /\ UNCHANGED <<holder, lcmds>>
    /\ LockUnchanged

\* The UI thread after the panic of open_output_stream: it makes no further
\* step.
Panicked == [op |-> "panicked", on |-> "ui"]

\* The calls that can fail.
Fallible ==
    {"send?", "File::open", "open_track", "Decoder::new", "stream_connect",
     "stream_buffer", "open_output_stream"}

\* What is left of a program whose first step, a call, fails: open_track's
\* Err arm skips append, play and sleep_until_end and the loop goes on;
\* open_default_stream().expect(..) panics the UI thread; every other
\* failure ends the thread or the task (`?`, or unwrap() in the stream
\* thread).
AfterFailure(prog) ==
    CASE Head(prog).on = "open_track" -> SubSeq(prog, 5, Len(prog))
      [] Head(prog).on = "open_output_stream" -> <<Panicked>>
      [] OTHER -> <<>>

\* A call fails; a `send(..)?` fails when the Receiver is gone.  A thread
\* that ends drops the guards it holds.
L_fail(p) ==
    /\ NextStep(p, "call")
    /\ Head(lprog[p]).on \in Fallible
    /\ Head(lprog[p]).on = "send?" => ~state_rx
    /\ lprog' = [lprog EXCEPT ![p] = AfterFailure(@)]
    /\ holder' = IF Head(lprog[p]).on = "open_track" THEN holder
                 ELSE [l \in Locks |-> IF holder[l] = p THEN Free ELSE holder[l]]
    /\ UNCHANGED lcmds
    /\ LockUnchanged

\* spawn, by the control thread or by the task: a session thread starts,
\* to play some number of items (it gets the first free thread number).
L_spawn_n(c, loops) ==
    /\ NextStep(c, "spawn")
    /\ Head(lprog[c]).on # "task"
    /\ \E p \in Threads, n \in loops :
          /\ lprog[p] = <<>>
          /\ \A q \in Threads : q < p => lprog[q] # <<>>
          /\ lprog' = [lprog EXCEPT ![c] = Tail(@),
                                    ![p] = ThreadLocks(Head(lprog[c]).on, n)]
    /\ UNCHANGED <<holder, lcmds>>
    /\ LockUnchanged

L_spawn(c) == L_spawn_n(c, 0..MaxLoops)

\* tokio_rt.spawn: the task starts on the worker with RodioPlayer::play_stream.
L_spawn_task ==
    /\ NextStep(0, "spawn")
    /\ Head(lprog[0]).on = "task"
    /\ lprog[Worker] = <<>>
    /\ lprog' = [lprog EXCEPT ![0] = Tail(@), ![Worker] = play_stream_locks]
    /\ UNCHANGED <<holder, lcmds>>
    /\ LockUnchanged

\* sleep_until_end returns: the sink drained, or was stopped or cleared.
L_wait_return(p) ==
    /\ NextStep(p, "wait")
    /\ StepDone(p)
    /\ UNCHANGED <<holder, lcmds>>
    /\ LockUnchanged

\* A process's own steps, the return of sleep_until_end excluded.
L_own(p) == L_acquire(p) \/ L_release(p) \/ L_do(p) \/ L_fail(p)

InitLocks == EngineIdle /\ CdIdle

NextLocks ==
    \/ L_call
    \/ \E c \in {0, Worker} : L_spawn(c)
    \/ L_spawn_task
    \/ \E p \in Procs : L_acquire(p)
    \/ \E p \in Procs : L_release(p)
    \/ \E p \in Procs : L_do(p)
    \/ \E p \in Procs : L_fail(p)
    \/ \E p \in Threads : L_wait_return(p)
    \/ Drop_state_rx

\* Every process is scheduled; nothing promises that a sink ever drains.
SpecLocks ==
    /\ InitLocks
    /\ [][NextLocks]_vars
    /\ \A c \in {0, Worker} : WF_vars(L_spawn(c))
    /\ WF_vars(L_spawn_task)
    /\ \A p \in Procs : WF_vars(L_own(p))

\* The same with two session threads at most, each playing one item at
\* most: a command that spawns is called while at most one session thread
\* runs or is about to be spawned.
L_call_two ==
    /\ L_call
    /\ Spawns(lprog'[0])
          => Cardinality({p \in Threads : lprog[p] # <<>>}) + PendingSpawns <= 1

\* A session thread that plays no item or one.
L_spawn_short(c) == L_spawn_n(c, {0, 1})

NextTwoLocks ==
    \/ L_call_two
    \/ \E c \in {0, Worker} : L_spawn_short(c)
    \/ L_spawn_task
    \/ \E p \in Procs : L_acquire(p)
    \/ \E p \in Procs : L_release(p)
    \/ \E p \in Procs : L_do(p)
    \/ \E p \in Procs : L_fail(p)
    \/ \E p \in Threads : L_wait_return(p)
    \/ Drop_state_rx

SpecTwoLocks ==
    /\ InitLocks
    /\ [][NextTwoLocks]_vars
    /\ \A c \in {0, Worker} : WF_vars(L_spawn_short(c))
    /\ WF_vars(L_spawn_task)
    /\ \A p \in Procs : WF_vars(L_own(p))

\* =================================================================== claims
\* A session thread is active when it has taken an item from the cursor and
\* is about to feed it to its sink, or is blocked while its source is still
\* queued in its sink.
Active(t) == pc[t] \in {"title", "open", "play"} \/ (pc[t] = "wait" /\ InSink(t))

\* A thread starts an item in a step that passes the loop's bound check.
StartsItem(t) == pc[t] = "take" /\ pc'[t] = "title"

\* C1: in every reachable state at most one playback-session thread is
\* active (taking items from the cursor and feeding a sink).
C1_AtMostOneActiveSession == Cardinality({t \in Threads : Active(t)}) <= 1

\* C2: a session thread that was playing (blocked in sleep_until_end) when
\* play_cd() did its stop()-then-clear() starts no further item afterwards:
\* its loop condition fails the next time it reads the cursor.
C2_OldSessionStartsNoItemAfterPlayCd ==
    [][\A t \in Threads : superseded[t] = "play_cd" => ~StartsItem(t)]_vars

\* C4: a session thread that was playing on the old sink when
\* switch_device() stopped and cleared playback starts no further item.
C4_OldSessionStartsNoItemAfterSwitch ==
    [][\A t \in Threads : superseded[t] = "switch_device" => ~StartsItem(t)]_vars

\* ---------------------------------------------------------------- helpers
IsPrefix(a, b) == Len(a) <= Len(b) /\ \A i \in 1..Len(a) : a[i] = b[i]

StateEvents(t) ==
    LET f == SelectSeq(stateChan, LAMBDA e : e.by = t)
    IN [i \in 1..Len(f) |-> f[i].ev]

TitlesBy(t) ==
    LET f == SelectSeq(titleChan, LAMBDA e : e.by = t)
    IN [i \in 1..Len(f) |-> f[i].title]

OpensBy(t) ==
    LET f == SelectSeq(openLog, LAMBDA e : e.by = t)
    IN [i \in 1..Len(f) |-> f[i].what]

LastTwo(q) == IF Len(q) < 2 THEN <<>> ELSE SubSeq(q, Len(q) - 1, Len(q))

Increasing(q) == \A i \in 1..Len(q), j \in 1..Len(q) : i < j => q[i] < q[j]

Range(q) == {q[i] : i \in 1..Len(q)}

\* C3: if stop() stops the sink while a file or CD session thread is blocked
\* waiting for it to drain, and no other command follows, the thread starts
\* no further item and exits, its last events being Stopped, Unseekable.
C3_StopEndsBlockedSession ==
    /\ \A t \in Threads :
          (stopSeen[t] = "stop")
             ~> (pc[t] = "done" /\ LastTwo(StateEvents(t)) = <<"Stopped", "Unseekable">>)
    /\ [][\A t \in Threads : stopSeen[t] = "stop" => ~StartsItem(t)]_vars

C3_Witness ==
    \E t \in Threads :
       /\ stopSeen[t] = "stop"
       /\ pc[t] = "done"
       /\ kind[t] = "cd"
       /\ Len(TitlesBy(t)) < Len(SelectAudio(ttracks[t])) - tstart[t]

\* C5: for a queue of N openable items, cursor 0 and no other command, play()
\* puts on the state channel exactly Playing, Seekable, StartPlaying and,
\* after the last item has drained, Stopped, Unseekable, and on the title
\* channel exactly one TitleChanged per item, in queue order.
C5_FileSessionEvents ==
    (kind[1] = "file" /\ stopCalls = 0 /\ \A i \in 1..Len(queue) : queue[i].path_ok)
    =>
    LET evs == [i \in 1..Len(stateChan) |-> stateChan[i].ev]
        titles == [i \in 1..Len(titleChan) |-> titleChan[i].title]
        expected == <<"Playing", "Seekable", "StartPlaying", "Stopped", "Unseekable">>
        queueTitles == [i \in 1..Len(queue) |-> queue[i].title]
    IN /\ IsPrefix(evs, expected)
       /\ IsPrefix(titles, queueTitles)
       /\ (titles # <<>> => Len(evs) >= 3)
       /\ (Len(evs) > 3 => titles = queueTitles /\ sinkQ[tsink[1]] = <<>>)
       /\ (pc[1] = "done" => evs = expected /\ titles = queueTitles)

C5_Witness ==
    /\ kind[1] = "file"
    /\ stopCalls = 0
    /\ pc[1] = "done"
    /\ Len(queue) = 2
    /\ \A i \in 1..Len(queue) : queue[i].path_ok
    /\ queue[1].title # queue[2].title
    /\ Len(titleChan) = 2

\* C6: an uninterrupted play_cd() session emits a TitleChanged and attempts
\* playback exactly for the audio tracks whose position in the audio-only
\* sub-list is >= start_index, in disc order; data tracks are never opened
\* and never produce a TitleChanged.
C6_CdSessionPlaysAudioFromStart ==
    (kind[1] = "cd" /\ stopCalls = 0)
    =>
    LET tr == ttracks[1]
        audioPos(i) == Cardinality({j \in 1..(i - 1) : tr[j].is_audio})
        expected == {tr[i].number : i \in {k \in 1..Len(tr) :
                                             tr[k].is_audio /\ audioPos(k) >= tstart[1]}}
    IN /\ Increasing(TitlesBy(1))
       /\ Range(TitlesBy(1)) \subseteq expected
       /\ OpensBy(1) = TitlesBy(1) \/ OpensBy(1) \o <<TitlesBy(1)[Len(TitlesBy(1))]>> = TitlesBy(1)
       /\ (pc[1] = "done" => Range(TitlesBy(1)) = expected /\ OpensBy(1) = TitlesBy(1))

C6_Witness ==
    /\ kind[1] = "cd"
    /\ stopCalls = 0
    /\ pc[1] = "done"
    /\ Len(ttracks[1]) = 3
    /\ ~ttracks[1][2].is_audio
    /\ TitlesBy(1) = <<1, 3>>
    /\ OpensBy(1) = <<1, 3>>

\* C7: for a track spanning S >= 0 sectors the Track Source yields exactly
\* S * 1176 samples and then end-of-stream, whatever reads succeed or fail;
\* once end-of-stream was returned every later call returns end-of-stream.
C7_TrackSourceYieldsExactly ==
    source = "open"
    =>
    LET S == src_track.end_lba - src_track.start_lba
    IN /\ n_some <= S * 1176
       /\ n_none > 0 => (n_some = S * 1176 /\ ~last_ret.some)

C7_Witness ==
    /\ source = "open"
    /\ src_track.end_lba - src_track.start_lba = 2 * SECTORS_PER_READ + 1
    /\ n_none = MaxEosCalls
    /\ \E i, j \in 1..Len(reads) : reads[i].ok /\ ~reads[j].ok

\* C8: when the read of a sector range R fails, the samples at the positions
\* R's samples would have occupied are zero, and every other position holds
\* the decoded disc data of its sector (16 bit little-endian, over i16::MAX).
C8_FailedReadYieldsSilenceInPlace ==
    (source = "open" /\ last_ret.some)
    =>
    LET p == n_some - 1
        sector == src_track.start_lba + (p \div 1176)
        k == p % 1176
        failed == \E i \in 1..Len(reads) :
                     /\ ~reads[i].ok
                     /\ reads[i].lba <= sector
                     /\ sector < reads[i].lba + reads[i].nframes
        u == DiscByte(sector, 2 * k) + 256 * DiscByte(sector, 2 * k + 1)
        decoded == IF u >= 32768 THEN u - 65536 ELSE u
    IN /\ last_ret.den = 32767
       /\ last_ret.num = IF failed THEN 0 ELSE decoded

C8_Witness ==
    /\ source = "open"
    /\ src_track.start_lba = 2
    /\ Len(reads) = 3
    /\ reads[1].ok /\ ~reads[2].ok /\ reads[3].ok
    /\ n_some = (2 * SECTORS_PER_READ + 1) * 1176
    /\ last_ret.some /\ last_ret.num # 0

RECURSIVE SumSectors(_)
SumSectors(ts) == IF ts = <<>> THEN 0 ELSE sector_count(Head(ts)) + SumSectors(Tail(ts))

\* C9: when the TOC header reports tracks first..last (first <= last) and
\* read_cd_toc returns, it returns exactly last - first + 1 entries numbered
\* first..last in order, whose sector counts add up to the lead-out address
\* minus the first track's start address.
C9_TocEntriesAndSectorSum ==
    (toc_pc = "ok" /\ first_track <= last_track)
    =>
    /\ Len(cd_tracks) = last_track - first_track + 1
    /\ \A i \in 1..Len(cd_tracks) : cd_tracks[i].number = first_track + i - 1
    /\ SumSectors(cd_tracks) = leadout_lba - cd_tracks[1].start_lba

C9_Witness ==
    /\ toc_pc = "ok"
    /\ first_track = 2
    /\ last_track = 3
    /\ Len(cd_tracks) = 2
    /\ cd_tracks[1].start_lba = 0
    /\ cd_tracks[2].start_lba = 1
    /\ leadout_lba = 2

\* C10: in every CdInfo read_cd_toc returns, each track has
\* end_lba > start_lba, each track ends where the next one starts, and the
\* last one ends at the lead-out address.
C10_TrackRangesNonEmptyAndContiguous ==
    toc_pc = "ok"
    =>
    /\ \A i \in 1..Len(cd_tracks) : cd_tracks[i].end_lba > cd_tracks[i].start_lba
    /\ \A i \in 1..(Len(cd_tracks) - 1) : cd_tracks[i].end_lba = cd_tracks[i + 1].start_lba
    /\ cd_tracks # <<>> => cd_tracks[Len(cd_tracks)].end_lba = leadout_lba

\* C11: a failed send on either channel never changes playback: whether or
\* not the receivers exist, an uninterrupted play() session over openable
\* items, or play_cd() session, that has ended has attempted every item it
\* would otherwise play.
C11_SendFailureNeverChangesPlayback ==
    (stopCalls = 0 /\ pc[1] \in {"done", "failed"})
    =>
    /\ (kind[1] = "file" /\ \A i \in 1..Len(queue) : queue[i].path_ok)
          => OpensBy(1) = [i \in 1..Len(queue) |-> queue[i].title]
    /\ kind[1] = "cd"
          => OpensBy(1) = [i \in 1..(Len(SelectAudio(ttracks[1])) - tstart[1]) |->
                              SelectAudio(ttracks[1])[tstart[1] + i].number]

\* C12: no engine operation and no session thread reaches a panic state,
\* whatever a collaborator call returns.
C12_NoPanic ==
    /\ \A t \in Threads : pc[t] # "panicked"
    /\ ctl.cmd # "panicked"
    /\ toc_pc # "panic"

Holds(p) == {l \in Locks : holder[l] = p}

BlockedOn(p) == IF NextStep(p, "acq") THEN holder[Head(lprog[p]).on] ELSE Free

\* C13: stop, pause, clear, skip_next, skip_previous, set_volume, mute and
\* switch_device (every operation of the control thread) finish in a bounded
\* number of their own steps (switch_device by its return or by the panic of
\* open_output_stream) whether or not any sink ever drains; only
\* session threads execute the wait-until-drained call; and a session thread
\* blocked in that wait holds none of the engine's locks.
C13_ControlNeverWaitsForSession ==
    /\ [](\A i \in 1..Len(lprog[0]) : lprog[0][i].op # "wait")
    /\ [](\A p \in Threads : NextStep(p, "wait") => Holds(p) = {})
    /\ (lprog[0] # <<>>) ~> (lprog[0] = <<>> \/ lprog[0] = <<Panicked>>)

C13_Witness ==
    /\ NextStep(1, "wait")
    /\ NextStep(2, "wait")
    /\ lcmds = MaxLockCmds
    /\ lprog[0] = <<>>

\* C14: no set of threads is ever blocked on locks held inside the set; the
\* only acquisition made while another engine lock is held is the cursor
\* lock under the queue lock, by a session thread.
C14_NoDeadlockQueueThenCursor ==
    /\ \A S \in (SUBSET Procs) \ {{}} : \E p \in S : BlockedOn(p) \notin S
    /\ \A p \in Procs :
          (NextStep(p, "acq") /\ Holds(p) # {})
             => (p \in Threads /\ Holds(p) = {"queue"} /\ Head(lprog[p]).on = "cursor")

C14_Witness ==
    /\ holder["queue"] = 1
    /\ holder["cursor"] = 0
    /\ NextStep(1, "acq")
    /\ Head(lprog[1]).on = "cursor"

LastVol == volLog[Len(volLog)]

\* C15: when switch_device() has returned, the new current sink has exactly
\* the gain the old sink had when it was called (zero included, as when
\* muted), and the mute memory is what it was.
C15_SwitchDevicePreservesVolume ==
    (ctl.cmd = "switch_device" /\ ctl.ops = <<>>)
    =>
    /\ curSink = nsinks
    /\ volume[curSink] = LastVol.vol
    /\ mute_volume = LastVol.mute

C15_Witness ==
    /\ ctl.cmd = "switch_device"
    /\ ctl.ops = <<>>
    /\ curSink = 2
    /\ LastVol.vol = 0
    /\ LastVol.mute = 2

\* Two mute() calls with no set_volume or switch_device between them, the
\* second having returned.
MutePair ==
    /\ ctl.cmd = "mute"
    /\ ctl.ops = <<>>
    /\ Len(volLog) >= 2
    /\ volLog[Len(volLog)].cmd = "mute"
    /\ volLog[Len(volLog) - 1].cmd = "mute"

BeforePair == volLog[Len(volLog) - 1]

MuteEvents == SelectSeq(StateEvents(0), LAMBDA e : e \in {"Muted", "Unmuted"})

\* C16 as stated: mute() then mute() restores the gain v for every v, leaves
\* the mute memory at zero, and for v # 0 emits Muted then Unmuted.
C16_MuteTwiceMemoryZero ==
    MutePair
    =>
    /\ volume[curSink] = BeforePair.vol
    /\ mute_volume = 0
    /\ BeforePair.vol # 0 => LastTwo(MuteEvents) = <<"Muted", "Unmuted">>

\* C16, amended: mute() then mute() restores the gain v for every v; the
\* mute memory ends at zero when v # 0 and at its value before the pair when
\* v = 0; for v # 0 the pair emits Muted then Unmuted.
C16_MuteTwiceRestoresVolume ==
    MutePair
    =>
    /\ volume[curSink] = BeforePair.vol
    /\ mute_volume = IF BeforePair.vol # 0 THEN 0 ELSE BeforePair.mute
    /\ BeforePair.vol # 0 => LastTwo(MuteEvents) = <<"Muted", "Unmuted">>

C16_Witness ==
    /\ MutePair
    /\ BeforePair.vol = 2
    /\ volume[curSink] = 2
    /\ LastTwo(MuteEvents) = <<"Muted", "Unmuted">>

MaxInt(a, b) == IF a >= b THEN a ELSE b

\* C17: the step of skip_previous() that moves the cursor takes it from c to
\* max(c - 2, 0): to 0 from 0 or 1, never below zero.
C17_SkipPreviousClampsAtZero ==
    [][(NextOp("idx_sub2") /\ ctl' # ctl)
          => (idx' = MaxInt(idx - 2, 0) /\ idx' >= 0)]_vars

C17_Witness ==
    /\ ctl.cmd = "skip_previous"
    /\ ctl.ops = <<"sink_stop">>
    /\ idx = 0
    /\ Len(queue) = 1
    /\ pc[1] = "wait"

\* Playback is paused: a session's source is queued in the current sink and
\* the sink is paused.
PlaybackPaused ==
    /\ paused[curSink]
    /\ \E t \in Threads : pc[t] = "wait" /\ tsink[t] = curSink /\ InSink(t)

\* C18: a play() executed while playback is paused un-pauses the sink and
\* spawns no session thread (a thread is spawned only when playback is
\* stopped).
C18_PlayWhilePausedResumes ==
    [][(ctl.cmd = "play" /\ ctl.ops # <<>> /\ PlaybackPaused /\ ctl' # ctl)
          => (nthreads' = nthreads /\ ~paused'[curSink])]_vars

AudioNumbersFrom(t) ==
    [i \in 1..(Len(SelectAudio(ttracks[t])) - tstart[t]) |->
        SelectAudio(ttracks[t])[tstart[t] + i].number]

\* C19: in a play_cd() session a track that fails to open never ends the
\* thread: from every open attempt the thread goes on to its end, where its
\* last events are Stopped, Unseekable; and with no stop() the tracks it
\* tried to open are all the audio tracks from the start index, in order,
\* whichever of them failed.
C19_CdOpenFailureDoesNotEndSession ==
    /\ [](\A t \in Threads : kind[t] = "cd" => pc[t] \notin {"failed", "panicked"})
    /\ \A t \in Threads : (kind[t] = "cd" /\ pc[t] = "title") ~> (pc[t] = "done")
    /\ [](\A t \in Threads :
            (kind[t] = "cd" /\ pc[t] = "done")
               => /\ LastTwo(StateEvents(t)) = <<"Stopped", "Unseekable">>
                  /\ stopCalls = 0 => OpensBy(t) = AudioNumbersFrom(t))

\* Every track failed to open: the sink is still paused from clear().
C19_Witness ==
    /\ kind[1] = "cd"
    /\ pc[1] = "done"
    /\ stopCalls = 0
    /\ Len(OpensBy(1)) >= 2
    /\ paused[tsink[1]]
    /\ LastTwo(StateEvents(1)) = <<"Stopped", "Unseekable">>

\* The state channel carries thread 1's Stopped after thread 2's StartPlaying.
StoppedAfterStart ==
    \E i \in 1..Len(stateChan), j \in 1..Len(stateChan) :
        /\ i < j
        /\ stateChan[i] = Ev("StartPlaying", 2)
        /\ stateChan[j] = Ev("Stopped", 1)

\* The new session's StartPlaying is on the state channel and thread 1 has
\* not sent its trailing Stopped yet.
NewStartedFirst ==
    /\ superseded[1] = "play_cd"
    /\ \E i \in 1..Len(stateChan) : stateChan[i] = Ev("StartPlaying", 2)
    /\ \A j \in 1..Len(stateChan) : stateChan[j] # Ev("Stopped", 1)

\* C20: play_cd() supersedes a running CD session without joining its thread:
\* in the interleavings where the new session's StartPlaying reaches the state
\* channel before the superseded thread has sent its trailing Stopped, that
\* Stopped arrives on the channel after the new session's StartPlaying.
C20_TrailingStoppedAfterNewStart ==
    NewStartedFirst ~> (superseded[1] = "play_cd" /\ StoppedAfterStart)

C20_Witness ==
    /\ superseded[1] = "play_cd"
    /\ StoppedAfterStart
    /\ pc[1] = "done"
    /\ kind[2] = "cd"
    /\ pc[2] = "wait"
    /\ LastTwo(StateEvents(1)) = <<"Stopped", "Unseekable">>

\* C21: eject_cd returns Ok exactly when the device opened and the eject call
\* succeeded, whatever the door unlock did; on Ok the CD page has no tracks
\* and disc_present = false, on Err both are as they were.
C21_EjectIgnoresUnlockFailure ==
    [][(NextOp("eject_cd") /\ ctl' # ctl)
          => /\ (eject'.ret = "ok") <=> (eject'.open_ok /\ eject'.eject_ok)
             /\ eject'.ret = "ok" => (disc' = <<>> /\ ~disc_present')
             /\ eject'.ret # "ok" => (disc' = disc /\ disc_present' = disc_present)]_vars

\* The unlock failed, the eject succeeded; an earlier eject of the same disc
\* had failed and left its tracks listed.
C21_Witness ==
    /\ ctl.cmd = "eject_cd"
    /\ ctl.ops = <<>>
    /\ ncmds = 2
    /\ eject.open_ok
    /\ ~eject.unlock_ok
    /\ eject.ret = "ok"
    /\ disc = <<>>
    /\ ~disc_present

\* C22: every sample the Track Source yields lies in [-1.0, 1.0], for every
\* 16-bit sample value read from the disc.
C22_SampleWithinUnitRange ==
    fn_out # <<>> => (-fn_out[1].den <= fn_out[1].num /\ fn_out[1].num <= fn_out[1].den)

\* C23: read_cd_toc returns an error and no track list, partial or not,
\* when the open, the header read, an entry read or the lead-out read
\* fails; when the UI receives that error it lists no tracks and marks the
\* disc absent.
C23_TocReadFailsHard ==
    /\ [](toc_pc = "err" => cd_tracks = <<>>)
    /\ [][(ui_toc_rx /\ ~ui_toc_rx' /\ toc_pc = "err")
             => (disc' = <<>> /\ ~disc_present')]_vars

\* An entry or lead-out read failed after entries had been read, and the UI
\* has received the error.
C23_Witness ==
    /\ toc_pc = "err"
    /\ Len(entries) >= 2
    /\ ~ui_toc_rx
    /\ disc = <<>>
    /\ ~disc_present

\* C24: open_track returns an error and opens no device for a non-audio
\* track; for an audio track it returns the device-open error, or a Track
\* Source positioned at the track's start_lba whose end bound is its end_lba.
C24_OpenTrackRefusesDataTracks ==
    /\ (source # "none" /\ ~src_track.is_audio) => (source = "err" /\ dev_opens = 0)
    /\ (source # "none" /\ src_track.is_audio) => dev_opens = 1
    /\ (source = "open" /\ reads = <<>>)
          => /\ src_track.is_audio
             /\ current_lba = src_track.start_lba
             /\ end_lba = src_track.end_lba

\* open_track has refused a data track.
C24_Witness == source = "err" /\ ~src_track.is_audio /\ dev_opens = 0

\* C25: while play_stream() has not finished its setup, and in the step in
\* which the setup fails, the task changes neither the cursor, the queue
\* nor the sink, spawns no thread and sends no event; after a failed setup
\* play_stream() does nothing more (stop() and the spawn come after a
\* successful setup only).
C25_FailedStreamSetupTouchesNothing ==
    [][/\ \A i \in 1..Len(task') :
             task'[i].setup \in StreamSetupSteps => task'[i].ops = <<>>
       /\ \A i \in 1..Len(task) :
             (task[i].setup = "pending" /\ task'[i] # task[i])
                => UNCHANGED <<idx, queue, curSink, nsinks, sinkQ, paused, stateChan,
                               titleChan, nthreads, pc>>]_vars

\* play_stream() failed at the bit-rate header while a file session, begun
\* after the task was spawned, was playing: the session still plays.
C25_Witness ==
    /\ Len(task) = 1
    /\ task[1].setup = "bitrate"
    /\ pc[1] = "wait"
    /\ sinkQ[curSink] = <<1>>
    /\ idx = 1

\* C26: when clear() returns the queue is empty, the cursor is 0 and nothing
\* is queued in the current sink, whatever they were before, the stop
\* sentinel included.
C26_ClearResetsQueueCursorSink ==
    [][(ctl.cmd = "clear" /\ ctl.ops # <<>> /\ ctl' # ctl /\ ctl'.ops = <<>>)
          => (queue' = <<>> /\ idx' = 0 /\ sinkQ'[curSink'] = <<>>)]_vars

\* C27: append(items) makes the queue the old queue followed by items in
\* their order, and changes neither the cursor, the sinks, the mute memory
\* nor the two channels, and spawns no thread.
C27_AppendOnlyExtendsQueue ==
    [][(NextOp("append") /\ ctl' # ctl)
          => /\ queue' = queue \o ctl.items
             /\ UNCHANGED <<idx, curSink, nsinks, sinkQ, paused, volume, mute_volume,
                            stateChan, titleChan, nthreads, pc>>]_vars

\* append(<<b>>) has returned while a session plays item a.
C27_Witness ==
    /\ ctl.cmd = "append"
    /\ ctl.ops = <<>>
    /\ Len(queue) = 2
    /\ queue[1].title = "a"
    /\ queue[2].title = "b"
    /\ pc[1] = "wait"
    /\ sinkQ[curSink] = <<1>>

\* The title of item i of the queue, counting from 0.
TitleAt(i) == IF i < Len(queue) THEN queue[i + 1].title ELSE ""

\* C28: if skip_previous() moves the cursor while a session thread is
\* blocked waiting for item k (the cursor being k + 1), and no other command
\* follows, the next item the thread starts is item max(k - 1, 0): the
\* previous item, or the same item again when k = 0.
C28_SkipPreviousStartsPreviousItem ==
    \A t \in Threads :
       (skipSeen[t].cmd = "skip_previous" /\ skipSeen[t].cursor = skipSeen[t].opens)
          ~> /\ Len(OpensBy(t)) > skipSeen[t].opens
             /\ OpensBy(t)[skipSeen[t].opens + 1]
                   = TitleAt(MaxInt((skipSeen[t].cursor - 1) - 1, 0))

\* skip_previous() found the session waiting for the second of two
\* different items, and the session has started the first one again.
C28_Witness ==
    /\ skipSeen[1].cmd = "skip_previous"
    /\ skipSeen[1].cursor = 2
    /\ Len(queue) = 2
    /\ queue[1].title # queue[2].title
    /\ Len(OpensBy(1)) = 3
    /\ OpensBy(1)[3] = queue[1].title

\* C29: skip_next() changes neither the cursor nor the queue; if it stops
\* the sink while a session thread is blocked waiting for item k of N (the
\* cursor being k + 1) and no other command follows, the thread next starts
\* item k + 1 when k + 1 < N, and otherwise starts nothing more and exits,
\* its last events being Stopped, Unseekable.
C29_SkipNextStartsNextItemOrEnds ==
    /\ [][(ctl.cmd = "skip_next" /\ ctl.ops # <<>> /\ ctl' # ctl)
             => UNCHANGED <<idx, queue>>]_vars
    /\ \A t \in Threads :
          (/\ skipSeen[t].cmd = "skip_next"
           /\ skipSeen[t].cursor = skipSeen[t].opens
           /\ skipSeen[t].cursor < Len(queue))
             ~> /\ Len(OpensBy(t)) > skipSeen[t].opens
                /\ OpensBy(t)[skipSeen[t].opens + 1] = TitleAt(skipSeen[t].cursor)
    /\ \A t \in Threads :
          (/\ skipSeen[t].cmd = "skip_next"
           /\ skipSeen[t].cursor = skipSeen[t].opens
           /\ skipSeen[t].cursor >= Len(queue))
             ~> /\ pc[t] = "done"
                /\ Len(OpensBy(t)) = skipSeen[t].opens
                /\ LastTwo(StateEvents(t)) = <<"Stopped", "Unseekable">>

\* skip_next() stopped the first of two different items under the session,
\* which has started the second.
C29_Witness ==
    /\ skipSeen[1].cmd = "skip_next"
    /\ stopSeen[1] = "skip_next"
    /\ skipSeen[1].cursor = 1
    /\ Len(queue) = 2
    /\ queue[1].title # queue[2].title
    /\ OpensBy(1) = <<queue[1].title, queue[2].title>>

\* C30: the TitleChanged the stream metadata callback sends: for a stream
\* title s with a "-", the artist is the trimmed text before the first "-"
\* and the title the trimmed text after it up to the first "'"; for s with
\* no "-" the title is "-"; when the metadata has no stream title or failed
\* to parse the title is "-"; the album is "-" and the cover the icon.
C30_StreamTitleSplit ==
    fn_out # <<>> =>
       LET out == fn_out[1]
           s == fn_in.s
           dash == Find(s, "-", 1)
           rest == SubSeq(s, dash + 1, Len(s))
           quote == Find(rest, "'", 1)
       IN /\ (fn_in.meta = "ok" /\ dash > 0)
                => /\ out.artist = trim(SubSeq(s, 1, dash - 1))
                   /\ out.title = trim(IF quote > 0 THEN SubSeq(rest, 1, quote - 1) ELSE rest)
          /\ (fn_in.meta = "ok" /\ dash = 0) => out.title = <<"-">>
          /\ fn_in.meta # "ok" => out.title = <<"-">>
          /\ out.album = <<"-">>
          /\ out.cover = fn_in.icon

\* C31: for every value 0..255 of the packed address/control byte, the entry
\* is classified as audio exactly when bit 0x4 of the control nibble
\* (byte >> 4) & 0xF is clear, that is, when the nibble is none of 4..7 and
\* 12..15.
C31_AudioIffControlBitClear ==
    fn_out # <<>> =>
       LET nibble == CHOOSE n \in 0..15 : \E low \in 0..15 : fn_in[1] = 16 * n + low
       IN fn_out[1] <=> nibble \notin ({4, 5, 6, 7} \cup {12, 13, 14, 15})

\* A byte whose low nibble has bit 0x4 set and whose control nibble has not
\* was classified as audio.
C31_Witness == fn_out = <<TRUE>> /\ fn_in = <<36>>

\* C32: get_cover returns the default "images/no_image.jpg" for an empty
\* list and the path itself for a single path; for several paths it returns
\* the last one whose text contains "cover" or "front", and the first path
\* when none does.
C32_GetCoverPicksLastMatch ==
    fn_out # <<>> =>
       LET paths == fn_in
           out == fn_out[1]
           matching == {i \in 1..Len(paths) :
                           \E j \in 1..Len(paths[i]) : paths[i][j] \in {"cover", "front"}}
           last == CHOOSE i \in matching : \A j \in matching : j <= i
       IN /\ out.ret = "ok"
          /\ Len(paths) = 0 => out.path = <<"images/no_image.jpg">>
          /\ Len(paths) = 1 => out.path = paths[1]
          /\ Len(paths) > 1 => out.path = IF matching = {} THEN paths[1] ELSE paths[last]

\* C33: once a stop() issued after the play-family command has returned,
\* the session that command spawned starts no item, also when stop() ran
\* before the session thread executed its first statement.
C33_StopAfterPlayIsNeverLost ==
    [][(ctl.cmd = "stop" /\ ctl.ops = <<>>) => \A t \in Threads : ~StartsItem(t)]_vars

\* C34: a session thread that sent Playing has sent Stopped after it by the
\* time it has exited, whichever way it exited.
C34_PlayingThreadSendsStopped ==
    \A t \in Threads :
       (pc[t] \in {"done", "failed"} /\ "Playing" \in Range(StateEvents(t)))
          => \E i, j \in 1..Len(StateEvents(t)) :
                /\ i < j
                /\ StateEvents(t)[i] = "Playing"
                /\ StateEvents(t)[j] = "Stopped"

\* drain_channels, button states: is_playing after receiving the events of
\* chan in order, starting from is_playing = p.  Playing and StartPlaying
\* set it, Stopped clears it, the other events leave it.
RECURSIVE FoldIsPlaying(_, _)
FoldIsPlaying(chan, p) ==
    IF chan = <<>> THEN p
    ELSE FoldIsPlaying(Tail(chan),
                       CASE Head(chan).ev \in {"Playing", "StartPlaying"} -> TRUE
                         [] Head(chan).ev = "Stopped" -> FALSE
                         [] OTHER -> p)

\* No command is pending and every session thread has exited or is blocked
\* while its source plays.
Quiescent ==
    /\ Idle
    /\ \A t \in Threads :
          \/ pc[t] \in {"unborn", "done", "failed", "panicked"}
          \/ pc[t] = "wait" /\ InSink(t)

\* C35: once no command is pending and the state channel is fully drained,
\* the listener's is_playing flag is true exactly when some session thread
\* is still playing.
C35_IsPlayingIffSessionPlays ==
    Quiescent => (FoldIsPlaying(stateChan, FALSE) <=> \E t \in Threads : pc[t] = "wait" /\ InSink(t))

\* C36: whenever a session thread takes an item, the cursor it found is
\* smaller than the length of the file queue (file session) or of its list
\* of audio tracks (CD session) in that very step, the item it holds is the
\* one at that index, and the cursor is that index plus one, which does not
\* overflow; whatever stop(), clear(), skip_previous(), append() and other
\* session threads do around it.
C36_CursorTakeIsAtomic ==
    [][\A t \in Threads :
          StartsItem(t)
             => /\ idx + 1 <= USIZE_MAX
                /\ idx' = idx + 1
                /\ kind[t] = "file" => (idx < Len(queue) /\ cur'[t] = queue[idx + 1])
                /\ kind[t] = "cd"
                      => /\ idx < Len(SelectAudio(ttracks[t]))
                         /\ cur'[t] = SelectAudio(ttracks[t])[idx + 1]]_vars

\* A file session took an item again after skip_previous() had stopped it.
C36_Witness ==
    /\ kind[1] = "file"
    /\ pc[1] = "open"
    /\ idx = 1
    /\ Len(OpensBy(1)) >= 1
    /\ stopSeen[1] = "skip_previous"

\* stop() has been called and has returned.
StopReturned == stopCalls >= 1 /\ (ctl.cmd = "stop" => ctl.ops = <<>>)

\* Position in the state channel of the first event ev sent by process p,
\* or 0.
FirstEvent(p, ev) ==
    LET at == {i \in 1..Len(stateChan) : stateChan[i].by = p /\ stateChan[i].ev = ev}
    IN IF at = {} THEN 0 ELSE CHOOSE i \in at : \A j \in at : i <= j

\* Thread t sent Playing after stop() had sent Stopped.
PlayingAfterStop(t) ==
    /\ FirstEvent(0, "Stopped") > 0
    /\ FirstEvent(t, "Playing") > FirstEvent(0, "Stopped")

SessionEventsOfNoItem == <<"Playing", "Seekable", "StartPlaying", "Stopped", "Unseekable">>

\* C37: after stop() the cursor stays at the sentinel (no clear() or
\* play_cd() being called after it), and a play() after stop() starts a
\* session that plays no item and sends only Playing, Seekable,
\* StartPlaying, Stopped, Unseekable.
C37_CursorStaysAtSentinel ==
    /\ StopReturned => idx = USIZE_MAX
    /\ \A t \in Threads :
          (kind[t] = "file" /\ PlayingAfterStop(t))
             => /\ OpensBy(t) = <<>>
                /\ IsPrefix(StateEvents(t), SessionEventsOfNoItem)

RECURSIVE SumFrames(_)
SumFrames(rs) == IF rs = <<>> THEN 0 ELSE Head(rs).nframes + SumFrames(Tail(rs))

\* Number of read attempts a track of S sectors takes: ceil(S / 25).
ReadAttempts(S) == (S + SECTORS_PER_READ - 1) \div SECTORS_PER_READ

\* C38: the Track Source terminates: every refill, failed or not, moves the
\* sector cursor forward by the count it asked for (at least 1), so a track
\* of S sectors takes at most ceil(S / 25) read attempts, exactly that many
\* once end-of-stream was returned, and no range is asked for twice.
C38_TrackSourceTerminates ==
    source = "open"
    =>
    LET S == src_track.end_lba - src_track.start_lba
    IN /\ \A i \in 1..Len(reads) : reads[i].nframes >= 1
       /\ current_lba = src_track.start_lba + SumFrames(reads)
       /\ current_lba <= end_lba
       /\ Len(reads) <= ReadAttempts(S)
       /\ n_none > 0 => Len(reads) = ReadAttempts(S)
       /\ \A i, j \in 1..Len(reads) : i < j => reads[i].lba < reads[j].lba

\* A track of 51 sectors whose three reads all failed has reached
\* end-of-stream.
C38_Witness ==
    /\ source = "open"
    /\ src_track.end_lba - src_track.start_lba = 2 * SECTORS_PER_READ + 1
    /\ Len(reads) = 3
    /\ \A i \in 1..Len(reads) : ~reads[i].ok
    /\ n_none > 0

\* The sectors a request covers.
SectorsOf(r) == r.lba .. (r.lba + r.nframes - 1)

\* C39: every read request of a track [start_lba, end_lba) starts at the
\* sector cursor, asks for 1..25 sectors and lies inside the track; the
\* requests are contiguous, no sector is asked for twice, and at
\* end-of-stream every sector of the track was asked for exactly once.
C39_ReadRequestsTileTheTrack ==
    /\ [][reads' # reads
             => /\ Len(reads') = Len(reads) + 1
                /\ SubSeq(reads', 1, Len(reads)) = reads
                /\ reads'[Len(reads')].lba = current_lba]_vars
    /\ [](source = "open"
          =>
          /\ \A i \in 1..Len(reads) :
                /\ 1 <= reads[i].nframes
                /\ reads[i].nframes <= SECTORS_PER_READ
                /\ src_track.start_lba <= reads[i].lba
                /\ reads[i].lba + reads[i].nframes <= src_track.end_lba
          /\ Len(reads) > 0 => reads[1].lba = src_track.start_lba
          /\ \A i \in 1..(Len(reads) - 1) :
                reads[i + 1].lba = reads[i].lba + reads[i].nframes
          /\ \A i, j \in 1..Len(reads) :
                i # j => SectorsOf(reads[i]) \cap SectorsOf(reads[j]) = {}
          /\ n_none > 0
                => \A s \in src_track.start_lba .. (src_track.end_lba - 1) :
                      Cardinality({i \in 1..Len(reads) : s \in SectorsOf(reads[i])}) = 1)

\* A track of 26 sectors starting at sector 2 was read to its end with two
\* requests, of 25 sectors and of 1.
C39_Witness ==
    /\ source = "open"
    /\ src_track.start_lba = 2
    /\ src_track.end_lba = 2 + SECTORS_PER_READ + 1
    /\ Len(reads) = 2
    /\ reads[1].nframes = SECTORS_PER_READ
    /\ reads[2].lba = 2 + SECTORS_PER_READ
    /\ reads[2].nframes = 1
    /\ n_none > 0

Loading(s) == s \in DOMAIN cd_source_states /\ cd_source_states[s].loading

\* Every TOC read returned without a panic, no receiver is stored any
\* more, and a CD source is still shown as loading: no result is left
\* to set its state from.
SourceLeftLoading ==
    /\ cd_toc_rx = NoTocRx
    /\ toc_chans # <<>>
    /\ \A c \in 1..Len(toc_chans) : toc_chans[c].state \in {"sent", "received"}
    /\ \E s \in CdSources : Loading(s)

\* C40: every LoadCdToc request ends: a CD source that is loading is
\* eventually not loading any more, with its status and its tracks set
\* from the result of a TOC read, also when another LoadCdToc replaced the
\* stored receiver meanwhile; so no source is left loading once every read
\* has returned and no receiver is stored.
C40_LoadCdTocEnds ==
    /\ []~SourceLeftLoading
    /\ \A s \in CdSources :
          Loading(s)
             ~> (/\ s \in DOMAIN cd_source_states
                 /\ ~cd_source_states[s].loading
                 /\ cd_source_states[s].status.text
                       \in {"audio tracks found", "Failed to read disc"})

====
